---- MODULE Spec2Model ----
(***************************************************************************)
(* The Lattes extraction and rendering pipeline of lcad-team-website:      *)
(*   scripts/parse_lattes.py          (extractor, Spec)                    *)
(*   scripts/generate_lattes_pages.py (card renderers, SpecRender)         *)
(*   scripts/generate_html.py         (Scholar fragment, SpecRender)       *)
(*                                                                         *)
(* A Python str is a sequence of one-character strings; an element of the  *)
(* sequence longer than one character is either an HTML entity written by  *)
(* html.escape or a chunk of fixed template text.                          *)
(***************************************************************************)
EXTENDS Integers, Sequences, FiniteSets, TLC

\* ------------------------------------------------------------------------
\* Bounds of the explored inputs
\* ------------------------------------------------------------------------
MaxElems == 2
MaxAuthors == 3

\* ------------------------------------------------------------------------
\* Python strings
\* ------------------------------------------------------------------------
Digits == {"0", "1", "2", "3", "4", "5", "6", "7", "8", "9"}

DigitVal(c) ==
  CASE c = "0" -> 0 [] c = "1" -> 1 [] c = "2" -> 2 [] c = "3" -> 3
    [] c = "4" -> 4 [] c = "5" -> 5 [] c = "6" -> 6 [] c = "7" -> 7
    [] c = "8" -> 8 [] c = "9" -> 9

\* ord(c) for the characters that occur in compared strings
Ord(c) ==
  CASE c \in Digits -> 48 + DigitVal(c)
    [] c = " " -> 32
    [] c = "-" -> 45
    [] c = "s" -> 115
    [] c = "x" -> 120

\* a < b on str: lexicographic by code point, a proper prefix is smaller
RECURSIVE StrLess(_, _)
StrLess(a, b) ==
  IF a = <<>> THEN b # <<>>
  ELSE IF b = <<>> THEN FALSE
  ELSE IF Head(a) = Head(b) THEN StrLess(Tail(a), Tail(b))
  ELSE Ord(Head(a)) < Ord(Head(b))

RECURSIVE Reverse(_)
Reverse(s) == IF s = <<>> THEN <<>> ELSE Reverse(Tail(s)) \o <<Head(s)>>

Front(s) == SubSeq(s, 1, Len(s) - 1)
Last(s) == s[Len(s)]

\* str.strip() for the blank character
RECURSIVE LStrip(_)
LStrip(s) == IF s # <<>> /\ Head(s) = " " THEN LStrip(Tail(s)) ELSE s
Strip(s) == Reverse(LStrip(Reverse(LStrip(s))))

RECURSIVE DecVal(_)
DecVal(s) == IF s = <<>> THEN 0 ELSE 10 * DecVal(Front(s)) + DigitVal(Last(s))

\* int(x): x is the default 0 (an int) or an attribute string.  A string is
\* accepted when, blanks stripped, it is an optional sign and one or more
\* decimal digits; anything else raises ValueError.
IntBody(s) ==
  LET t == Strip(s) IN IF t # <<>> /\ Head(t) \in {"-", "+"} THEN Tail(t) ELSE t
IntNeg(s) == LET t == Strip(s) IN t # <<>> /\ Head(t) = "-"
IntRaises(s) ==
  LET b == IntBody(s) IN b = <<>> \/ \E i \in 1..Len(b) : b[i] \notin Digits
IntOf(s) == IF IntNeg(s) THEN 0 - DecVal(IntBody(s)) ELSE DecVal(IntBody(s))

\* ------------------------------------------------------------------------
\* xml.etree.ElementTree: a parsed document is the sequence of its elements
\* in document order; element 1 is the root and parent = 0 for the root.
\* ------------------------------------------------------------------------
VARIABLES argv, inputFile, outFile, pc, tree, data, exc, exitCode

\* the renderers: the call being made, its position and the fragment returned
VARIABLES call, rpc, html

\* generate_html.py: the metrics file and index.html, main's position and
\* locals, every str written to index.html so far, the number of the run
VARIABLES metricsFile, htmlFile, gpc, metrics, html_content, updated_html,
          written, runs, gexc, gexit

\* fetch_scholar.py: whether the scholarly library can be imported, what the
\* Scholar service answers, the metrics file, the position in main, its
\* locals, the exception it caught and the exit code
VARIABLES scholarly, service, scholarFile, fpc, author, fmetrics, top_pubs,
          fexc, fexit

\* generate_lattes_pages.py main: the data file, the two page files, the
\* position in main, its locals, the exception that ended it, the exit code
VARIABLES dataFile, publicationsFile, projectsFile, lpc, ldata,
          publications_html, projects_html, lexc, lexit

\* element i is n itself or a descendant of n
RECURSIVE InSubtree(_, _)
InSubtree(i, n) ==
  IF i = n THEN TRUE
  ELSE IF i = 0 THEN FALSE
  ELSE InSubtree(tree[i].parent, n)

RECURSIVE IterFrom(_, _, _)
IterFrom(i, n, tag) ==
  IF i > Len(tree) THEN <<>>
  ELSE (IF InSubtree(i, n) /\ tree[i].tag = tag THEN <<i>> ELSE <<>>)
       \o IterFrom(i + 1, n, tag)

\* only the direct children of n, as Element.findall(tag) gives them
IterChildren(n, tag) ==
  LET kids == {i \in 1..Len(tree) : tree[i].parent = n /\ tree[i].tag = tag}
      k(j) == CHOOSE i \in kids : Cardinality({m \in kids : m < i}) = j - 1
  IN [j \in 1..Cardinality(kids) |-> k(j)]

\* Element.iter(tag): n and all its descendants with that tag, document order
Iter(n, tag) == IterFrom(1, n, tag)

\* Element.find(tag): the first direct child with that tag, 0 for None
Find(n, tag) ==
  LET kids == {i \in 1..Len(tree) : tree[i].parent = n /\ tree[i].tag = tag}
  IN IF kids = {} THEN 0 ELSE CHOOSE i \in kids : \A j \in kids : i <= j

\* Element.get(key, '')
Get(n, key) == IF key \in DOMAIN tree[n].attrs THEN tree[n].attrs[key] ELSE <<>>

\* ------------------------------------------------------------------------
\* parse_lattes_xml: tags and records
\* ------------------------------------------------------------------------
PubCats == {"articles", "conference_papers", "books", "book_chapters"}
Cats == PubCats \cup {"projects"}

ElemTag(cat) ==
  CASE cat = "articles" -> "ARTIGO-PUBLICADO"
    [] cat = "conference_papers" -> "TRABALHO-EM-EVENTOS"
    [] cat = "books" -> "LIVRO-PUBLICADO-OU-ORGANIZADO"
    [] cat = "book_chapters" -> "CAPITULO-DE-LIVRO-PUBLICADO"
    [] cat = "projects" -> "PROJETO-DE-PESQUISA"

DadosTag(cat) ==
  CASE cat = "articles" -> "DADOS-BASICOS-DO-ARTIGO"
    [] cat = "conference_papers" -> "DADOS-BASICOS-DO-TRABALHO"
    [] cat = "books" -> "DADOS-BASICOS-DO-LIVRO"
    [] cat = "book_chapters" -> "DADOS-BASICOS-DO-CAPITULO"

DetalhesTag(cat) ==
  CASE cat = "articles" -> "DETALHAMENTO-DO-ARTIGO"
    [] cat = "conference_papers" -> "DETALHAMENTO-DO-TRABALHO"
    [] cat = "books" -> "DETALHAMENTO-DO-LIVRO"
    [] cat = "book_chapters" -> "DETALHAMENTO-DO-CAPITULO"

EmptyData ==
  [articles |-> <<>>, conference_papers |-> <<>>, books |-> <<>>,
   book_chapters |-> <<>>, projects |-> <<>>]

\* int(autor.get('ORDEM-DE-AUTORIA', 0)): the default is the int 0
AuthorOrder(autor) ==
  IF "ORDEM-DE-AUTORIA" \in DOMAIN tree[autor].attrs
  THEN IntOf(tree[autor].attrs["ORDEM-DE-AUTORIA"]) ELSE 0

AuthorRaises(autor) ==
  /\ "ORDEM-DE-AUTORIA" \in DOMAIN tree[autor].attrs
  /\ IntRaises(tree[autor].attrs["ORDEM-DE-AUTORIA"])

\* the (order, name) tuples in the order the AUTORES elements are met
AuthorPairs(el) ==
  LET auts == Iter(el, "AUTORES")
  IN [i \in 1..Len(auts) |->
        <<AuthorOrder(auts[i]), Get(auts[i], "NOME-COMPLETO-DO-AUTOR")>>]

\* authors.sort(key=lambda x: x[0]): stable, ascending
RECURSIVE InsertAuthor(_, _)
InsertAuthor(p, s) ==
  IF s = <<>> THEN <<p>>
  ELSE IF p[1] < Head(s)[1] THEN <<p>> \o s
  ELSE <<Head(s)>> \o InsertAuthor(p, Tail(s))

SortAuthorsUnsorted(pairs) == pairs

RECURSIVE SortAuthors(_)
SortAuthors(pairs) ==
  IF pairs = <<>> THEN <<>>
  ELSE InsertAuthor(Last(pairs), SortAuthors(Front(pairs)))

AuthorList(el) ==
  LET authors == SortAuthors(AuthorPairs(el))
  IN [i \in 1..Len(authors) |-> authors[i][2]]

\* detalhes.get(key, '') if detalhes is not None else ''
DetGet(detalhes, key) == IF detalhes # 0 THEN Get(detalhes, key) ELSE <<>>

\* the page range built without looking whether detalhes is None
PageRangeAlways(detalhes) ==
  DetGet(detalhes, "PAGINA-INICIAL") \o <<"-">> \o DetGet(detalhes, "PAGINA-FINAL")

\* f"{detalhes.get('PAGINA-INICIAL', '')}-{detalhes.get('PAGINA-FINAL', '')}"
\*   if detalhes is not None else ''
PageRange(detalhes) ==
  IF detalhes # 0
  THEN Get(detalhes, "PAGINA-INICIAL") \o <<"-">> \o Get(detalhes, "PAGINA-FINAL")
  ELSE <<>>

ArticleRecord(artigo) ==
  LET dados == Find(artigo, "DADOS-BASICOS-DO-ARTIGO")
      detalhes == Find(artigo, "DETALHAMENTO-DO-ARTIGO")
  IN [title |-> Get(dados, "TITULO-DO-ARTIGO"),
      title_en |-> Get(dados, "TITULO-DO-ARTIGO-INGLES"),
      year |-> Get(dados, "ANO-DO-ARTIGO"),
      doi |-> Get(dados, "DOI"),
      language |-> Get(dados, "IDIOMA"),
      authors |-> AuthorList(artigo),
      journal |-> DetGet(detalhes, "TITULO-DO-PERIODICO-OU-REVISTA"),
      volume |-> DetGet(detalhes, "VOLUME"),
      issue |-> DetGet(detalhes, "FASCICULO"),
      pages |-> PageRange(detalhes),
      issn |-> DetGet(detalhes, "ISSN")]

PaperRecord(trabalho) ==
  LET dados == Find(trabalho, "DADOS-BASICOS-DO-TRABALHO")
      detalhes == Find(trabalho, "DETALHAMENTO-DO-TRABALHO")
  IN [title |-> Get(dados, "TITULO-DO-TRABALHO"),
      title_en |-> Get(dados, "TITULO-DO-TRABALHO-INGLES"),
      year |-> Get(dados, "ANO-DO-TRABALHO"),
      doi |-> Get(dados, "DOI"),
      language |-> Get(dados, "IDIOMA"),
      authors |-> AuthorList(trabalho),
      event |-> DetGet(detalhes, "NOME-DO-EVENTO"),
      event_en |-> DetGet(detalhes, "NOME-DO-EVENTO-INGLES"),
      proceedings |-> DetGet(detalhes, "TITULO-DOS-ANAIS-OU-PROCEEDINGS"),
      pages |-> PageRange(detalhes),
      city |-> DetGet(detalhes, "CIDADE-DO-EVENTO"),
      country |-> DetGet(detalhes, "PAIS-DO-EVENTO")]

BookRecord(livro) ==
  LET dados == Find(livro, "DADOS-BASICOS-DO-LIVRO")
      detalhes == Find(livro, "DETALHAMENTO-DO-LIVRO")
  IN [title |-> Get(dados, "TITULO-DO-LIVRO"),
      title_en |-> Get(dados, "TITULO-DO-LIVRO-INGLES"),
      year |-> Get(dados, "ANO"),
      doi |-> Get(dados, "DOI"),
      authors |-> AuthorList(livro),
      publisher |-> DetGet(detalhes, "NOME-DA-EDITORA"),
      isbn |-> DetGet(detalhes, "ISBN"),
      pages |-> DetGet(detalhes, "NUMERO-DE-PAGINAS")]

ChapterRecord(capitulo) ==
  LET dados == Find(capitulo, "DADOS-BASICOS-DO-CAPITULO")
      detalhes == Find(capitulo, "DETALHAMENTO-DO-CAPITULO")
  IN [title |-> Get(dados, "TITULO-DO-CAPITULO-DO-LIVRO"),
      title_en |-> Get(dados, "TITULO-DO-CAPITULO-DO-LIVRO-INGLES"),
      year |-> Get(dados, "ANO"),
      doi |-> Get(dados, "DOI"),
      authors |-> AuthorList(capitulo),
      book_title |-> DetGet(detalhes, "TITULO-DO-LIVRO"),
      publisher |-> DetGet(detalhes, "NOME-DA-EDITORA"),
      isbn |-> DetGet(detalhes, "ISBN"),
      pages |-> PageRange(detalhes)]

PubRecord(cat, el) ==
  CASE cat = "articles" -> ArticleRecord(el)
    [] cat = "conference_papers" -> PaperRecord(el)
    [] cat = "books" -> BookRecord(el)
    [] cat = "book_chapters" -> ChapterRecord(el)

\* for equipe in projeto.iter('EQUIPE-DO-PROJETO'):
\*   for integrante in equipe.iter('INTEGRANTES-DO-PROJETO'): ...
RECURSIVE ProjectMembers(_)
ProjectMembers(equipes) ==
  IF equipes = <<>> THEN <<>>
  ELSE LET ints == Iter(Head(equipes), "INTEGRANTES-DO-PROJETO")
       IN [i \in 1..Len(ints) |->
             [name |-> Get(ints[i], "NOME-COMPLETO"),
              role |-> Get(ints[i], "FLAG-RESPONSAVEL")]]
          \o ProjectMembers(Tail(equipes))

ProjectFunding(projeto) ==
  LET fins == Iter(projeto, "FINANCIADOR-DO-PROJETO")
  IN [i \in 1..Len(fins) |->
        [agency |-> Get(fins[i], "NOME-INSTITUICAO"),
         nature |-> Get(fins[i], "NATUREZA")]]

ProjectRecord(projeto) ==
  [name |-> Get(projeto, "NOME-DO-PROJETO"),
   year_start |-> Get(projeto, "ANO-INICIO"),
   year_end |-> Get(projeto, "ANO-FIM"),
   status |-> Get(projeto, "SITUACAO"),
   nature |-> Get(projeto, "NATUREZA"),
   description |-> <<>>,
   description_en |-> <<>>,
   funding |-> ProjectFunding(projeto),
   members |-> ProjectMembers(Iter(projeto, "EQUIPE-DO-PROJETO"))]

\* the body of one "for el in root.iter(tag)" loop over publications:
\* a record for every element that has a basic-data child
RECURSIVE PubLoop(_, _)
PubLoop(cat, els) ==
  IF els = <<>> THEN <<>>
  ELSE (IF Find(Head(els), DadosTag(cat)) # 0
        THEN <<PubRecord(cat, Head(els))>> ELSE <<>>)
       \o PubLoop(cat, Tail(els))

\* the loop meets an AUTORES element whose order int() rejects
PubLoopRaises(cat) ==
  LET els == Iter(1, ElemTag(cat))
  IN \E i \in 1..Len(els) :
       /\ Find(els[i], DadosTag(cat)) # 0
       /\ LET auts == Iter(els[i], "AUTORES")
          IN \E k \in 1..Len(auts) : AuthorRaises(auts[k])

\* ------------------------------------------------------------------------
\* list.sort(key=lambda x: x.get('year', '0'), reverse=True)
\* ------------------------------------------------------------------------
YearKey(x) == IF "year" \in DOMAIN x THEN x.year ELSE <<"0">>
YearStartKey(x) == IF "year_start" \in DOMAIN x THEN x.year_start ELSE <<"0">>
SortKey(cat, x) == IF cat = "projects" THEN YearStartKey(x) ELSE YearKey(x)

\* stable ascending insertion by the str key
RECURSIVE InsertByKey(_, _, _)
InsertByKey(cat, x, s) ==
  IF s = <<>> THEN <<x>>
  ELSE IF StrLess(SortKey(cat, x), SortKey(cat, Head(s))) THEN <<x>> \o s
  ELSE <<Head(s)>> \o InsertByKey(cat, x, Tail(s))

RECURSIVE SortAscending(_, _)
SortAscending(cat, list) ==
  IF list = <<>> THEN <<>>
  ELSE InsertByKey(cat, Last(list), SortAscending(cat, Front(list)))

SortReverseUnstable(cat, list) == Reverse(SortAscending(cat, list))

\* reverse=True keeps the stability: equal keys stay in their original order
SortReverse(cat, list) == Reverse(SortAscending(cat, Reverse(list)))

\* ------------------------------------------------------------------------
\* Source documents.  An element is written as the sequence of the nodes of
\* its subtree with parents relative to the element (0: the place it hangs).
\* ------------------------------------------------------------------------
NoAttrs == <<>>
Node(tag, parent, attrs) == [tag |-> tag, parent |-> parent, attrs |-> attrs]
RootNode == Node("CURRICULO-VITAE", 0, NoAttrs)

DigitChars == <<"1", "2", "3", "4", "5", "6">>
Letters == <<"A", "B", "C", "D", "E", "F">>
Title(i) == <<"t", DigitChars[i]>>

TitleAttr(cat) ==
  CASE cat = "articles" -> "TITULO-DO-ARTIGO"
    [] cat = "conference_papers" -> "TITULO-DO-TRABALHO"
    [] cat = "books" -> "TITULO-DO-LIVRO"
    [] cat = "book_chapters" -> "TITULO-DO-CAPITULO-DO-LIVRO"
    [] cat = "projects" -> "NOME-DO-PROJETO"

YearAttr(cat) ==
  CASE cat = "articles" -> "ANO-DO-ARTIGO"
    [] cat = "conference_papers" -> "ANO-DO-TRABALHO"
    [] cat = "books" -> "ANO"
    [] cat = "book_chapters" -> "ANO"
    [] cat = "projects" -> "ANO-INICIO"

\* the year attribute: absent, empty, numbers of one and two digits, or text
YearVals == {<<>>, <<"9">>, <<"1", "1">>, <<"1", "9">>, <<"s">>, <<"1", "s">>}
YearAttrs(cat) == {NoAttrs} \cup {YearAttr(cat) :> y : y \in YearVals}

\* the authorship-order attribute: absent, a number, or other text
OrderVals == {<<"1">>, <<"2">>, <<"3">>, <<"1", "0">>, <<"x">>}
OrderAttrs == {NoAttrs} \cup {"ORDEM-DE-AUTORIA" :> v : v \in OrderVals}

FullDados(cat, i) ==
  IF cat \in {"articles", "conference_papers"}
  THEN TitleAttr(cat) :> Title(i) @@ YearAttr(cat) :> <<"1", "9">>
       @@ "DOI" :> <<"d">> @@ "IDIOMA" :> <<"p">>
  ELSE TitleAttr(cat) :> Title(i) @@ YearAttr(cat) :> <<"1", "9">>
       @@ "DOI" :> <<"d">>

NoPagesDetalhes(cat) ==
  CASE cat = "articles" ->
         "TITULO-DO-PERIODICO-OU-REVISTA" :> <<"j">> @@ "VOLUME" :> <<"7">>
         @@ "FASCICULO" :> <<"2">> @@ "ISSN" :> <<"i">>
    [] cat = "conference_papers" ->
         "NOME-DO-EVENTO" :> <<"e">> @@ "CIDADE-DO-EVENTO" :> <<"c">>
         @@ "PAIS-DO-EVENTO" :> <<"b">>
    [] cat = "books" -> "NOME-DA-EDITORA" :> <<"p">> @@ "ISBN" :> <<"i">>
    [] cat = "book_chapters" ->
         "TITULO-DO-LIVRO" :> <<"k">> @@ "NOME-DA-EDITORA" :> <<"p">>

FullDetalhes(cat) ==
  IF cat = "books"
  THEN NoPagesDetalhes(cat) @@ "NUMERO-DE-PAGINAS" :> <<"8">>
  ELSE NoPagesDetalhes(cat) @@ "PAGINA-INICIAL" :> <<"3">>
       @@ "PAGINA-FINAL" :> <<"9">>

DadosKinds == {"none", "bare", "full"}
DetalhesKinds == {"none", "bare", "nopages", "full"}

\* a publication element with its basic-data, details and AUTORES children
PubElem(cat, hasDados, dadosAttrs, hasDetalhes, detalhesAttrs, authors) ==
  <<Node(ElemTag(cat), 0, NoAttrs)>>
  \o (IF hasDados THEN <<Node(DadosTag(cat), 1, dadosAttrs)>> ELSE <<>>)
  \o (IF hasDetalhes THEN <<Node(DetalhesTag(cat), 1, detalhesAttrs)>> ELSE <<>>)
  \o [i \in 1..Len(authors) |-> Node("AUTORES", 1, authors[i])]

ShapedPubElem(cat, i, shape) ==
  PubElem(cat, shape[2] # "none",
          IF shape[2] = "full" THEN FullDados(cat, i) ELSE NoAttrs,
          shape[3] # "none",
          CASE shape[3] = "full" -> FullDetalhes(cat)
            [] shape[3] = "nopages" -> NoPagesDetalhes(cat)
            [] OTHER -> NoAttrs,
          <<>>)

\* a project element with its team and its funding agencies
ProjectElem(attrs, members, funding) ==
  <<Node("PROJETO-DE-PESQUISA", 0, attrs)>>
  \o (IF members = <<>> THEN <<>>
      ELSE <<Node("EQUIPE-DO-PROJETO", 1, NoAttrs)>>
           \o [i \in 1..Len(members) |->
                 Node("INTEGRANTES-DO-PROJETO", 2, members[i])])
  \o (IF funding = <<>> THEN <<>>
      ELSE <<Node("FINANCIADORES-DO-PROJETO", 1, NoAttrs)>>
           \o [i \in 1..Len(funding) |->
                 Node("FINANCIADOR-DO-PROJETO",
                      IF members = <<>> THEN 2 ELSE Len(members) + 3,
                      funding[i])])

ShapedProjectElem(i, shape) ==
  IF shape[2] = "full"
  THEN ProjectElem("NOME-DO-PROJETO" :> Title(i) @@ "ANO-INICIO" :> <<"1", "9">>
                   @@ "SITUACAO" :> <<"E">>,
                   <<"NOME-COMPLETO" :> <<"A">> @@ "FLAG-RESPONSAVEL" :> <<"S">>>>,
                   <<"NOME-INSTITUICAO" :> <<"F">>>>)
  ELSE ProjectElem(NoAttrs, <<>>, <<>>)

ShapedElem(cat, i, shape) ==
  IF cat = "projects" THEN ShapedProjectElem(i, shape)
  ELSE ShapedPubElem(cat, i, shape)

\* hang the elements under the root, or under a grouping element of the root
Place(nodes, base, container) ==
  [i \in 1..Len(nodes) |->
     [nodes[i] EXCEPT !.parent = IF @ = 0 THEN container ELSE base + @]]

RECURSIVE BuildDoc(_, _, _)
BuildDoc(elems, nested, acc) ==
  IF elems = <<>> THEN acc
  ELSE LET grp == IF Head(nested)
                  THEN acc \o <<Node("PRODUCAO-BIBLIOGRAFICA", 1, NoAttrs)>>
                  ELSE acc
           container == IF Head(nested) THEN Len(grp) ELSE 1
       IN BuildDoc(Tail(elems), Tail(nested),
                   grp \o Place(Head(elems), Len(grp), container))

Doc(elems, nested) == BuildDoc(elems, nested, <<RootNode>>)

\* up to MaxElems elements of one category, each with any year
YearDocs ==
  UNION {UNION {{Doc([i \in 1..n |->
                        IF cat = "projects"
                        THEN ProjectElem(TitleAttr(cat) :> Title(i) @@ ya[i],
                                         <<>>, <<>>)
                        ELSE PubElem(cat, TRUE, TitleAttr(cat) :> Title(i) @@ ya[i],
                                     FALSE, NoAttrs, <<>>)],
                     [i \in 1..n |-> FALSE])
                  : ya \in [1..n -> YearAttrs(cat)]}
               : n \in 0..MaxElems}
         : cat \in Cats}

\* up to MaxElems elements of one category, at either depth, with or without
\* the basic-data and details children and their attributes
Shapes ==
  {<<FALSE, "none", "none">>, <<FALSE, "none", "full">>,
   <<FALSE, "bare", "none">>, <<FALSE, "bare", "bare">>,
   <<FALSE, "full", "none">>, <<FALSE, "full", "nopages">>,
   <<FALSE, "full", "full">>,
   <<TRUE, "none", "none">>, <<TRUE, "full", "full">>}

ShapeDocs ==
  UNION {UNION {{Doc([i \in 1..n |-> ShapedElem(cat, i, sh[i])],
                     [i \in 1..n |-> sh[i][1]])
                  : sh \in [1..n -> Shapes]}
               : n \in 0..MaxElems}
         : cat \in Cats}

\* one publication element with up to MaxAuthors AUTORES in any order
AuthorDocs ==
  UNION {UNION {{Doc(<<PubElem(cat, TRUE, FullDados(cat, 1), FALSE, NoAttrs,
                               [i \in 1..n |->
                                  "NOME-COMPLETO-DO-AUTOR" :> <<Letters[i]>>
                                  @@ oa[i]])>>,
                     <<FALSE>>)
                  : oa \in [1..n -> OrderAttrs]}
               : n \in 1..MaxAuthors}
         : cat \in PubCats}

Docs == YearDocs \cup ShapeDocs \cup AuthorDocs

\* ------------------------------------------------------------------------
\* parse_lattes.py: main() and parse_lattes_xml()
\* ------------------------------------------------------------------------
extractorVars == <<argv, inputFile, outFile, pc, tree, data, exc, exitCode>>
rendererVars == <<call, rpc, html>>
updaterVars == <<metricsFile, htmlFile, gpc, metrics, html_content,
                 updated_html, written, runs, gexc, gexit>>
fetcherVars == <<scholarly, service, scholarFile, fpc, author, fmetrics,
                 top_pubs, fexc, fexit>>
pagesVars == <<dataFile, publicationsFile, projectsFile, lpc, ldata,
               publications_html, projects_html, lexc, lexit>>
vars == <<extractorVars, rendererVars, updaterVars, fetcherVars, pagesVars>>

NoCall == [fn |-> "none"]
RendererIdle == call = NoCall /\ rpc = "idle" /\ html = <<>>

Running == -1

UpdaterIdle ==
  /\ metricsFile = [exists |-> FALSE, content |-> <<>>]
  /\ htmlFile = [exists |-> FALSE, content |-> <<>>]
  /\ gpc = "idle"
  /\ metrics = <<>>
  /\ html_content = <<>>
  /\ updated_html = <<>>
  /\ written = <<>>
  /\ runs = 0
  /\ gexc = "none"
  /\ gexit = Running

NoFile == [kind |-> "absent", content |-> <<>>]
FetcherIdle ==
  /\ scholarly = FALSE
  /\ service = <<>>
  /\ scholarFile = NoFile
  /\ fpc = "idle"
  /\ author = <<>>
  /\ fmetrics = <<>>
  /\ top_pubs = <<>>
  /\ fexc = "none"
  /\ fexit = Running

PagesIdle ==
  /\ dataFile = NoFile
  /\ publicationsFile = NoFile
  /\ projectsFile = NoFile
  /\ lpc = "idle"
  /\ ldata = <<>>
  /\ publications_html = <<>>
  /\ projects_html = <<>>
  /\ lexc = "none"
  /\ lexit = Running

ExtractorIdle ==
  /\ argv = <<>>
  /\ inputFile = [exists |-> FALSE, wellFormed |-> FALSE, doc |-> <<>>]
  /\ outFile = [kind |-> "absent", content |-> EmptyData]
  /\ pc = "idle"
  /\ tree = <<>>
  /\ data = EmptyData
  /\ exc = "none"
  /\ exitCode = Running

InputFiles ==
  {[exists |-> FALSE, wellFormed |-> FALSE, doc |-> <<>>],
   [exists |-> TRUE, wellFormed |-> FALSE, doc |-> <<>>]}
  \cup {[exists |-> TRUE, wellFormed |-> TRUE, doc |-> d] : d \in Docs}

OutFile(kind, content) == [kind |-> kind, content |-> content]

Init ==
  /\ \/ /\ argv = <<"parse_lattes.py">>
        /\ inputFile = [exists |-> FALSE, wellFormed |-> FALSE, doc |-> <<>>]
     \/ /\ argv = <<"parse_lattes.py", "lattes.xml">>
        /\ inputFile \in InputFiles
  /\ outFile \in {OutFile("absent", EmptyData), OutFile("old", EmptyData)}
  /\ pc = "main"
  /\ tree = <<>>
  /\ data = EmptyData
  /\ exc = "none"
  /\ exitCode = Running
  /\ RendererIdle
  /\ UpdaterIdle
  /\ FetcherIdle
  /\ PagesIdle

\* sys.exit(1), or an exception nobody catches: the interpreter exits with 1
Abort(e) ==
  /\ exc' = e
  /\ exitCode' = 1
  /\ pc' = "exit"

\* if len(sys.argv) < 2: sys.exit(1)
MainUsage ==
  /\ pc = "main"
  /\ Len(argv) < 2
  /\ Abort("SystemExit")
  /\ UNCHANGED <<argv, inputFile, outFile, tree, data>>
  /\ UNCHANGED <<rendererVars, updaterVars, fetcherVars, pagesVars>>

\* if not Path(xml_path).exists(): sys.exit(1)
MainNotFound ==
  /\ pc = "main"
  /\ Len(argv) >= 2
  /\ ~inputFile.exists
  /\ Abort("SystemExit")
  /\ UNCHANGED <<argv, inputFile, outFile, tree, data>>
  /\ UNCHANGED <<rendererVars, updaterVars, fetcherVars, pagesVars>>

\* data = parse_lattes_xml(xml_path)
MainCallParse ==
  /\ pc = "main"
  /\ Len(argv) >= 2
  /\ inputFile.exists
  /\ pc' = "parse"
  /\ UNCHANGED <<argv, inputFile, outFile, tree, data, exc, exitCode>>
  /\ UNCHANGED <<rendererVars, updaterVars, fetcherVars, pagesVars>>

ETParseLenient ==
  /\ pc = "parse"
  /\ tree' = IF inputFile.wellFormed THEN inputFile.doc ELSE <<RootNode>>
  /\ data' = EmptyData
  /\ pc' = "articles"
  /\ UNCHANGED <<argv, inputFile, outFile, exc, exitCode>>
  /\ UNCHANGED <<rendererVars, updaterVars, fetcherVars, pagesVars>>

\* tree = ET.parse(xml_path); root = tree.getroot(); data = {...}
ETParse ==
  /\ pc = "parse"
  /\ IF inputFile.wellFormed
     THEN /\ tree' = inputFile.doc
          /\ data' = EmptyData
          /\ pc' = "articles"
          /\ UNCHANGED <<exc, exitCode>>
     ELSE /\ Abort("ParseError")
          /\ UNCHANGED <<tree, data>>
  /\ UNCHANGED <<argv, inputFile, outFile>>
  /\ UNCHANGED <<rendererVars, updaterVars, fetcherVars, pagesVars>>

\* one "for el in root.iter(tag)" loop of the four publication categories
ExtractPubs(cat, next) ==
  /\ pc = cat
  /\ IF PubLoopRaises(cat)
     THEN /\ Abort("ValueError")
          /\ UNCHANGED data
     ELSE /\ data' = [data EXCEPT ![cat] = @ \o PubLoop(cat, Iter(1, ElemTag(cat)))]
          /\ pc' = next
          /\ UNCHANGED <<exc, exitCode>>
  /\ UNCHANGED <<argv, inputFile, outFile, tree>>
  /\ UNCHANGED <<rendererVars, updaterVars, fetcherVars, pagesVars>>

ExtractArticles == ExtractPubs("articles", "conference_papers")
ExtractConferencePapers == ExtractPubs("conference_papers", "books")
ExtractBooks == ExtractPubs("books", "book_chapters")
ExtractBookChapters == ExtractPubs("book_chapters", "projects")

ExtractProjects ==
  /\ pc = "projects"
  /\ LET els == Iter(1, "PROJETO-DE-PESQUISA")
     IN data' = [data EXCEPT !.projects =
                   @ \o [i \in 1..Len(els) |-> ProjectRecord(els[i])]]
  /\ pc' = "sort"
  /\ UNCHANGED <<argv, inputFile, outFile, tree, exc, exitCode>>
  /\ UNCHANGED <<rendererVars, updaterVars, fetcherVars, pagesVars>>

\* the five sorts, and return data
SortData ==
  /\ pc = "sort"
  /\ data' = [cat \in Cats |-> SortReverse(cat, data[cat])]
  /\ pc' = "parsed"
  /\ UNCHANGED <<argv, inputFile, outFile, tree, exc, exitCode>>
  /\ UNCHANGED <<rendererVars, updaterVars, fetcherVars, pagesVars>>

\* output_path.parent.mkdir(...); open(output_path, 'w') truncates the file
MainOpen ==
  /\ pc = "parsed"
  /\ outFile' = OutFile("empty", EmptyData)
  /\ pc' = "dump"
  /\ UNCHANGED <<argv, inputFile, tree, data, exc, exitCode>>
  /\ UNCHANGED <<rendererVars, updaterVars, fetcherVars, pagesVars>>

\* json.dump(data, f, ...); return data
MainDump ==
  /\ pc = "dump"
  /\ outFile' = OutFile("json", data)
  /\ pc' = "exit"
  /\ exitCode' = 0
  /\ UNCHANGED <<argv, inputFile, tree, data, exc>>
  /\ UNCHANGED <<rendererVars, updaterVars, fetcherVars, pagesVars>>

Next ==
  \/ MainUsage
  \/ MainNotFound
  \/ MainCallParse
  \/ ETParse
  \/ ExtractArticles
  \/ ExtractConferencePapers
  \/ ExtractBooks
  \/ ExtractBookChapters
  \/ ExtractProjects
  \/ SortData
  \/ MainOpen
  \/ MainDump

Spec == Init /\ [][Next]_vars

\* ------------------------------------------------------------------------
\* Properties of the extractor
\* ------------------------------------------------------------------------
\* the loops are done and the lists are still in document order
BeforeSort == pc = "sort"
\* parse_lattes_xml has returned
Returned == pc \in {"parsed", "dump"} \/ (pc = "exit" /\ exitCode = 0)

Children(n, tag) == {c \in 1..Len(tree) : tree[c].parent = n /\ tree[c].tag = tag}

\* the elements of a category that are records: those with a basic-data child
RecordElems(cat) ==
  {n \in 1..Len(tree) : tree[n].tag = ElemTag(cat) /\ Children(n, DadosTag(cat)) # {}}
Kth(S, k) == CHOOSE n \in S : Cardinality({m \in S : m < n}) = k - 1

IsNumeric(s) == s # <<>> /\ \A i \in 1..Len(s) : s[i] \in Digits

AutoresOf(el) ==
  {a \in 1..Len(tree) : tree[a].tag = "AUTORES" /\ a # el /\ InSubtree(a, el)}

\* authors holds the names of all AUTORES of el, by ascending order integer
AuthorsInOrder(el, authors) ==
  /\ Len(authors) = Cardinality(AutoresOf(el))
  /\ \E f \in [1..Len(authors) -> AutoresOf(el)] :
       /\ \A i, j \in 1..Len(authors) : i # j => f[i] # f[j]
       /\ \A i \in 1..Len(authors) : authors[i] = Get(f[i], "NOME-COMPLETO-DO-AUTOR")
       /\ \A i, j \in 1..Len(authors) :
            i < j => AuthorOrder(f[i]) <= AuthorOrder(f[j])

\* C1: every record's author list holds the names of all AUTORES elements
\* nested in its element, ordered by ORDEM-DE-AUTORIA ascending, whatever
\* their order in the document; the final sort keeps each record's list.
C1_AuthorsSortedByOrder ==
  /\ BeforeSort =>
       \A cat \in PubCats : \A k \in 1..Len(data[cat]) :
         AuthorsInOrder(Kth(RecordElems(cat), k), data[cat][k].authors)
  /\ Returned =>
       \A cat \in PubCats : \A k \in 1..Len(data[cat]) :
         \E el \in RecordElems(cat) : AuthorsInOrder(el, data[cat][k].authors)

\* the spec's scenario: orders 2,1,3 in the document, names sorted to 1,2,3
C1_Witness ==
  /\ Returned
  /\ Len(data.conference_papers) = 1
  /\ data.conference_papers[1].authors = << <<"B">>, <<"A">>, <<"C">> >>
  /\ LET auts == Iter(1, "AUTORES")
     IN /\ Len(auts) = 3
        /\ [i \in 1..3 |-> AuthorOrder(auts[i])] = <<2, 1, 3>>

\* C2: after every run each list is sorted by year descending as numbers:
\* a record with numeric year a stands before every record with numeric
\* year b < a, also when the year strings differ in length.
C2_YearsDescendingAsNumbers ==
  Returned =>
    \A cat \in Cats : \A i, j \in 1..Len(data[cat]) :
      LET a == SortKey(cat, data[cat][i])
          b == SortKey(cat, data[cat][j])
      IN (IsNumeric(a) /\ IsNumeric(b) /\ DecVal(a) > DecVal(b)) => i < j

\* C3: in every list a record with a missing or non-numeric year stands
\* after all records with a numeric year.
C3_NonNumericYearsLast ==
  Returned =>
    \A cat \in Cats : \A i, j \in 1..Len(data[cat]) :
      (/\ ~IsNumeric(SortKey(cat, data[cat][i]))
       /\ IsNumeric(SortKey(cat, data[cat][j]))) => j < i

\* the records of a category in the order their elements are met
DocumentOrder(cat) ==
  IF cat = "projects"
  THEN LET els == Iter(1, ElemTag(cat))
       IN [i \in 1..Len(els) |-> ProjectRecord(els[i])]
  ELSE PubLoop(cat, Iter(1, ElemTag(cat)))

WithKey(cat, list, y) == SelectSeq(list, LAMBDA x : SortKey(cat, x) = y)

\* C4: records with equal year keep the relative order in which their
\* elements were met in the document.
C4_SortIsStable ==
  Returned =>
    \A cat \in Cats : \A i \in 1..Len(data[cat]) :
      LET y == SortKey(cat, data[cat][i])
      IN WithKey(cat, data[cat], y) = WithKey(cat, DocumentOrder(cat), y)

C4_Witness ==
  /\ Returned
  /\ \E cat \in Cats :
       /\ Len(data[cat]) = 2
       /\ SortKey(cat, data[cat][1]) = SortKey(cat, data[cat][2])
       /\ SortKey(cat, data[cat][1]) # <<>>
       /\ data[cat][1] # data[cat][2]
       /\ data[cat] = DocumentOrder(cat)

\* C5: per publication category, the number of records equals the number
\* of matching elements, at any depth, that have a basic-data child.
C5_OneRecordPerElementWithDados ==
  (BeforeSort \/ Returned) =>
    \A cat \in PubCats : Len(data[cat]) = Cardinality(RecordElems(cat))

\* one element nested under a grouping element with its basic data, and one
\* element without basic data: one record
C5_Witness ==
  /\ Returned
  /\ \E cat \in PubCats :
       /\ Len(data[cat]) = 1
       /\ \E n \in RecordElems(cat) : tree[n].parent # 1
       /\ \E n \in 1..Len(tree) :
            tree[n].tag = ElemTag(cat) /\ n \notin RecordElems(cat)

DetailFields(cat) ==
  CASE cat = "articles" -> {"journal", "volume", "issue", "pages", "issn"}
    [] cat = "conference_papers" ->
         {"event", "event_en", "proceedings", "pages", "city", "country"}
    [] cat = "books" -> {"publisher", "isbn", "pages"}
    [] cat = "book_chapters" -> {"book_title", "publisher", "isbn", "pages"}

SomeOrderRejected ==
  \E a \in 1..Len(tree) : tree[a].tag = "AUTORES" /\ AuthorRaises(a)

\* C6: an element with a basic-data child and no details child gives a
\* record whose details-derived fields are all the empty string, and the
\* missing details child is no reason for the run to raise.
C6_NoDetailsGivesEmptyFields ==
  /\ BeforeSort =>
       \A cat \in PubCats : \A k \in 1..Len(data[cat]) :
         Children(Kth(RecordElems(cat), k), DetalhesTag(cat)) = {} =>
           \A f \in DetailFields(cat) : data[cat][k][f] = <<>>
  /\ (tree # <<>> /\ ~SomeOrderRejected) => exc = "none"

C6_Witness ==
  /\ BeforeSort
  /\ \E cat \in PubCats :
       /\ Len(data[cat]) = 2
       /\ Children(Kth(RecordElems(cat), 1), DetalhesTag(cat)) = {}
       /\ Children(Kth(RecordElems(cat), 2), DetalhesTag(cat)) # {}
       /\ data[cat][1].pages = <<>>
       /\ data[cat][2].pages # <<>>

\* the attributes each text field of a record is read from, and the child
\* element that carries them
FieldSources(cat) ==
  CASE cat = "articles" ->
         {<<"title", "dados", {"TITULO-DO-ARTIGO"}>>,
          <<"title_en", "dados", {"TITULO-DO-ARTIGO-INGLES"}>>,
          <<"year", "dados", {"ANO-DO-ARTIGO"}>>,
          <<"doi", "dados", {"DOI"}>>,
          <<"language", "dados", {"IDIOMA"}>>,
          <<"journal", "detalhes", {"TITULO-DO-PERIODICO-OU-REVISTA"}>>,
          <<"volume", "detalhes", {"VOLUME"}>>,
          <<"issue", "detalhes", {"FASCICULO"}>>,
          <<"pages", "detalhes", {"PAGINA-INICIAL", "PAGINA-FINAL"}>>,
          <<"issn", "detalhes", {"ISSN"}>>}
    [] cat = "conference_papers" ->
         {<<"title", "dados", {"TITULO-DO-TRABALHO"}>>,
          <<"title_en", "dados", {"TITULO-DO-TRABALHO-INGLES"}>>,
          <<"year", "dados", {"ANO-DO-TRABALHO"}>>,
          <<"doi", "dados", {"DOI"}>>,
          <<"language", "dados", {"IDIOMA"}>>,
          <<"event", "detalhes", {"NOME-DO-EVENTO"}>>,
          <<"event_en", "detalhes", {"NOME-DO-EVENTO-INGLES"}>>,
          <<"proceedings", "detalhes", {"TITULO-DOS-ANAIS-OU-PROCEEDINGS"}>>,
          <<"pages", "detalhes", {"PAGINA-INICIAL", "PAGINA-FINAL"}>>,
          <<"city", "detalhes", {"CIDADE-DO-EVENTO"}>>,
          <<"country", "detalhes", {"PAIS-DO-EVENTO"}>>}
    [] cat = "books" ->
         {<<"title", "dados", {"TITULO-DO-LIVRO"}>>,
          <<"title_en", "dados", {"TITULO-DO-LIVRO-INGLES"}>>,
          <<"year", "dados", {"ANO"}>>,
          <<"doi", "dados", {"DOI"}>>,
          <<"publisher", "detalhes", {"NOME-DA-EDITORA"}>>,
          <<"isbn", "detalhes", {"ISBN"}>>,
          <<"pages", "detalhes", {"NUMERO-DE-PAGINAS"}>>}
    [] cat = "book_chapters" ->
         {<<"title", "dados", {"TITULO-DO-CAPITULO-DO-LIVRO"}>>,
          <<"title_en", "dados", {"TITULO-DO-CAPITULO-DO-LIVRO-INGLES"}>>,
          <<"year", "dados", {"ANO"}>>,
          <<"doi", "dados", {"DOI"}>>,
          <<"book_title", "detalhes", {"TITULO-DO-LIVRO"}>>,
          <<"publisher", "detalhes", {"NOME-DA-EDITORA"}>>,
          <<"isbn", "detalhes", {"ISBN"}>>,
          <<"pages", "detalhes", {"PAGINA-INICIAL", "PAGINA-FINAL"}>>}

\* none of the attributes of a field source is present on the element
SourceAbsent(cat, el, src) ==
  LET kids == Children(el, IF src[2] = "dados" THEN DadosTag(cat)
                           ELSE DetalhesTag(cat))
  IN kids = {} \/ src[3] \cap DOMAIN tree[Kth(kids, 1)].attrs = {}

\* C7: every text field whose source attributes are absent is the empty
\* string, the 'pages' of a details element without PAGINA-INICIAL and
\* PAGINA-FINAL included, and the absence does not abort the run.
C7_AbsentAttributesGiveEmptyFields ==
  /\ BeforeSort =>
       \A cat \in PubCats : \A k \in 1..Len(data[cat]) :
         \A src \in FieldSources(cat) :
           SourceAbsent(cat, Kth(RecordElems(cat), k), src) =>
             data[cat][k][src[1]] = <<>>
  /\ (tree # <<>> /\ ~SomeOrderRejected) => exc = "none"

BadInput == Len(argv) >= 2 /\ (~inputFile.exists \/ ~inputFile.wellFormed)

\* C8: on a missing path or a malformed document the run ends with exit
\* code 1 and the output file is neither created nor modified; the output
\* file changes only after parsing has succeeded.
C8_BadInputLeavesOutputFile ==
  /\ [](BadInput => (pc # "dump" /\ (pc = "exit" => exitCode = 1)))
  /\ [][BadInput => outFile' = outFile]_vars
  /\ [][outFile' # outFile =>
          (pc \in {"parsed", "dump"} /\ inputFile.wellFormed
           /\ tree = inputFile.doc /\ exc = "none")]_vars

C8_Witness ==
  /\ pc = "exit"
  /\ exitCode = 1
  /\ exc = "ParseError"
  /\ inputFile.exists
  /\ outFile.kind = "old"

\* C9: for every well-formed document at an existing path, whatever its
\* attribute values, parse_lattes_xml completes and returns a document with
\* exactly the five category keys.
C9_WellFormedInputNeverAborts ==
  (Len(argv) >= 2 /\ inputFile.exists /\ inputFile.wellFormed) =>
    /\ exc = "none"
    /\ pc = "exit" => exitCode = 0
    /\ Returned => DOMAIN data = Cats

\* ------------------------------------------------------------------------
\* The renderers.  A rendered str is a sequence of segments: the text of a
\* segment with field = "" is fixed template text, the text of any other
\* segment was computed from the named value of the input record.
\* ------------------------------------------------------------------------
MaxTextLen == 1

Lit(text) == [field |-> "", text |-> <<text>>]
Val(field, text) == [field |-> field, text |-> text]

\* the characters of a rendered str
RECURSIVE Text(_)
Text(markup) ==
  IF markup = <<>> THEN <<>> ELSE Head(markup).text \o Text(Tail(markup))

\* html.escape(s, quote=True), one character at a time
EscapeChar(c) ==
  CASE c = "&" -> "&amp;"
    [] c = "<" -> "&lt;"
    [] c = ">" -> "&gt;"
    [] c = "\"" -> "&quot;"
    [] c = "'" -> "&#x27;"
    [] OTHER -> c

Escape(s) == [i \in 1..Len(s) |-> EscapeChar(s[i])]

\* dict.get(key, default)
DictGet(d, key, default) == IF key \in DOMAIN d THEN d[key] ELSE default

\* x or y, on str and list
Or(x, y) == IF x # <<>> THEN x ELSE y

\* sep.join(strs)
RECURSIVE Join(_, _)
Join(strs, sep) ==
  IF strs = <<>> THEN <<>>
  ELSE IF Len(strs) = 1 THEN strs[1]
  ELSE strs[1] \o sep \o Join(Tail(strs), sep)

\* s.strip(c) for one character c
RECURSIVE LStripChar(_, _)
LStripChar(s, c) ==
  IF s # <<>> /\ Head(s) = c THEN LStripChar(Tail(s), c) ELSE s
StripChar(s, c) == Reverse(LStripChar(Reverse(LStripChar(s, c)), c))

\* s.startswith(prefix)
StartsWith(s, prefix) ==
  Len(s) >= Len(prefix) /\ SubSeq(s, 1, Len(prefix)) = prefix

\* s.replace(old, new)
RECURSIVE Replace(_, _, _)
Replace(s, old, new) ==
  IF s = <<>> THEN <<>>
  ELSE IF StartsWith(s, old)
       THEN new \o Replace(SubSeq(s, Len(old) + 1, Len(s)), old, new)
       ELSE <<Head(s)>> \o Replace(Tail(s), old, new)

\* str(n) of a non-negative int
DigitOf(d) == CHOOSE c \in Digits : DigitVal(c) = d
RECURSIVE DecStr(_)
DecStr(n) ==
  IF n < 10 THEN <<DigitOf(n)>> ELSE DecStr(n \div 10) \o <<DigitOf(n % 10)>>

\* f"{num:,}"
RECURSIVE GroupDigits(_)
GroupDigits(n) ==
  IF n < 1000 THEN DecStr(n)
  ELSE GroupDigits(n \div 1000)
       \o <<",", DigitOf((n % 1000) \div 100), DigitOf((n % 100) \div 10),
            DigitOf(n % 10)>>

\* the number without thousands separators
format_number_plain(num) ==
  IF num < 0 THEN <<"-">> \o DecStr(0 - num) ELSE DecStr(num)

format_number(num) ==
  IF num < 0 THEN <<"-">> \o GroupDigits(0 - num) ELSE GroupDigits(num)

MaxAuthorsShown == 10

\* format_authors(authors, max_authors=10)
format_authors(authors) ==
  IF authors = <<>> THEN <<>>
  ELSE Join(SubSeq(authors, 1, IF Len(authors) < MaxAuthorsShown
                                THEN Len(authors) ELSE MaxAuthorsShown),
            <<",", " ">>)
       \o (IF Len(authors) > MaxAuthorsShown THEN <<" et al.">> ELSE <<>>)

\* the venue of generate_publication_card, by publication type
Venue(pub, pub_type) ==
  CASE pub_type = "article" ->
         LET journal == Escape(DictGet(pub, "journal", <<>>))
             volume == DictGet(pub, "volume", <<>>)
             pages == StripChar(DictGet(pub, "pages", <<>>), "-")
         IN <<Val("journal", journal)>>
            \o (IF volume # <<>> THEN <<Lit(", Vol. "), Val("volume", volume)>>
                ELSE <<>>)
            \o (IF pages # <<>> THEN <<Lit(", pp. "), Val("pages", pages)>>
                ELSE <<>>)
    [] pub_type = "conference" ->
         LET event == Escape(Or(DictGet(pub, "event", <<>>),
                                DictGet(pub, "event_en", <<>>)))
             city == DictGet(pub, "city", <<>>)
             country == DictGet(pub, "country", <<>>)
         IN <<Val("event", event)>>
            \o (IF city # <<>> THEN <<Lit(", "), Val("city", city)>> ELSE <<>>)
            \o (IF country # <<>> /\ country # city
                THEN <<Lit(", "), Val("country", country)>> ELSE <<>>)
    [] pub_type = "book" ->
         LET publisher == Escape(DictGet(pub, "publisher", <<>>))
         IN IF publisher # <<>>
            THEN <<Lit("Publisher: "), Val("publisher", publisher)>> ELSE <<>>
    [] pub_type = "chapter" ->
         LET book_title == Escape(DictGet(pub, "book_title", <<>>))
             publisher == Escape(DictGet(pub, "publisher", <<>>))
         IN <<Lit("In: "), Val("book_title", book_title)>>
            \o (IF publisher # <<>>
                THEN <<Lit(" ("), Val("publisher", publisher), Lit(")")>>
                ELSE <<>>)
    [] OTHER -> <<>>

\* the title, with every DOI put behind the resolver
TitleHtmlResolverAlways(pub) ==
  LET title == Escape(Or(DictGet(pub, "title", <<>>),
                         DictGet(pub, "title_en", <<"Unknown Title">>)))
      doi == DictGet(pub, "doi", <<>>)
  IN IF doi # <<>>
     THEN <<Lit("<a href=\""), Lit("https://doi.org/"), Val("doi", doi),
            Lit("\" target=\"_blank\" rel=\"noopener\" class=\"hover:text-blue-600\">"),
            Val("title", title), Lit("</a>")>>
     ELSE <<Val("title", title)>>

\* the title of generate_publication_card, a link when there is a DOI
TitleHtml(pub) ==
  LET title == Escape(Or(DictGet(pub, "title", <<>>),
                         DictGet(pub, "title_en", <<"Unknown Title">>)))
      doi == DictGet(pub, "doi", <<>>)
      doi_url == IF ~StartsWith(doi, <<"h", "t", "t", "p">>)
                 THEN <<Lit("https://doi.org/"), Val("doi", doi)>>
                 ELSE <<Val("doi", doi)>>
  IN IF doi # <<>>
     THEN <<Lit("<a href=\"")>> \o doi_url
          \o <<Lit("\" target=\"_blank\" rel=\"noopener\" class=\"hover:text-blue-600\">"),
               Val("title", title), Lit("</a>")>>
     ELSE <<Val("title", title)>>

generate_publication_card(pub, pub_type, color) ==
  LET authors == format_authors(DictGet(pub, "authors", <<>>))
      year == DictGet(pub, "year", <<>>)
  IN <<Lit("<div class=\"publication-card ...\"><div class=\"flex items-start gap-4\">"),
       Lit("<span class=\"year-badge bg-"), Lit(color), Lit("-100 text-"),
       Lit(color), Lit("-800 ...\">"), Val("year", year), Lit("</span>"),
       Lit("<div class=\"flex-1 min-w-0\"><h3 class=\"font-semibold text-gray-900 mb-1\">")>>
     \o TitleHtml(pub)
     \o <<Lit("</h3><p class=\"text-sm text-gray-600 mb-1\">"),
          Val("authors", Escape(authors)),
          Lit("</p><p class=\"text-sm text-gray-500\">")>>
     \o Venue(pub, pub_type)
     \o <<Lit("</p></div></div></div>")>>

\* translations.get(name, {}).get(key, default)
TranslationGet(translations, name, key, default) ==
  IF name \in DOMAIN translations
  THEN DictGet(translations[name], key, default) ELSE default

\* the agency names that generate_project_card shortens, in its order; a
\* name is one chunk of text, written here without its accents
FundingShortNames ==
  << <<<<"FUNDACAO ESPIRITO-SANTENSE DE TECNOLOGIA">>, <<"FEST">>>>,
     <<<<"(FAPES) ", "Fundacao de Amparo a Pesquisa do Espirito Santo">>, <<"FAPES">>>>,
     <<<<"Fundacao de Amparo a Pesquisa do Espirito Santo">>, <<"FAPES">>>>,
     <<<<"CONSELHO NACIONAL DE DESENVOLVIMENTO CIENTIFICO E TECNOLOGICO-CNPQ">>, <<"CNPq">>>>,
     <<<<"Conselho Nacional de Desenvolvimento Cientifico e Tecnologico">>, <<"CNPq">>>>,
     <<<<"Financiadora de Estudos e Projetos">>, <<"FINEP">>>>,
     <<<<"Petrobras Transporte - Matriz">>, <<"Petrobras">>>>,
     <<<<"ArcelorMittal Brasil - Matriz">>, <<"ArcelorMittal">>>> >>

RECURSIVE ShortenFunding(_, _)
ShortenFunding(s, names) ==
  IF names = <<>> THEN s
  ELSE ShortenFunding(Replace(s, Head(names)[1], Head(names)[2]), Tail(names))

\* ", ".join([f.get('agency', '') for f in funding if f.get('agency')])
FundingStr(funding) ==
  LET named == SelectSeq(funding, LAMBDA f : DictGet(f, "agency", <<>>) # <<>>)
  IN ShortenFunding(Join([i \in 1..Len(named) |-> named[i].agency], <<",", " ">>),
                    FundingShortNames)

generate_project_card(proj, index, translations) ==
  LET name == DictGet(proj, "name", <<>>)
      name_en == Or(DictGet(proj, "name_en", <<>>),
                    TranslationGet(translations, name, "name", name))
      year_start == DictGet(proj, "year_start", <<>>)
      year_end == Or(DictGet(proj, "year_end", <<>>), <<"present">>)
      status == DictGet(proj, "status", <<>>)
      description == DictGet(proj, "description", <<>>)
      description_en == Or(DictGet(proj, "description_en", <<>>),
                           TranslationGet(translations, name, "description", <<>>))
      funding_str == FundingStr(DictGet(proj, "funding", <<>>))
      ongoing == status = <<"EM_ANDAMENTO">>
      status_class == IF ongoing THEN "status-ongoing" ELSE "status-completed"
      status_text == IF ongoing THEN "Ongoing" ELSE "Completed"
      border_color == IF ongoing THEN "green" ELSE "indigo"
      project_class == IF ongoing THEN "ongoing" ELSE "completed"
      name_escaped == Escape(name)
      name_en_escaped == IF name_en # name THEN Escape(name_en) ELSE <<>>
      description_escaped == IF description_en # <<>> THEN Escape(description_en)
                             ELSE Escape(description)
      shown_name == IF name_en_escaped # <<>> THEN name_en_escaped ELSE name_escaped
      desc_html ==
        IF description_escaped # <<>>
        THEN <<Lit("<div id=\"desc-"), Val("index", DecStr(index)),
               Lit("\" class=\"mt-3 text-sm text-gray-600 hidden\"><p class=\"bg-gray-50 p-4 rounded-lg\">"),
               Val("description", description_escaped), Lit("</p></div>")>>
        ELSE <<>>
      title_html ==
        IF description # <<>>
        THEN <<Lit("<h3 class=\"text-lg font-semibold text-gray-900 mb-2\"><button onclick=\"toggleDescription("),
               Val("index", DecStr(index)),
               Lit(")\" class=\"text-left hover:text-blue-600 flex items-center gap-2\"><span>"),
               Val("name", shown_name),
               Lit("</span><svg id=\"icon-"), Val("index", DecStr(index)),
               Lit("\" ...><path .../></svg></button></h3>")>>
        ELSE <<Lit("<h3 class=\"text-lg font-semibold text-gray-900 mb-2\">"),
               Val("name", shown_name), Lit("</h3>")>>
      original_html ==
        IF name_en_escaped # <<>> /\ name_en # name
        THEN <<Lit("<p class=\"text-sm text-gray-500 mb-2\"><span class=\"font-medium\">Original:</span> "),
               Val("name", name_escaped), Lit("</p>")>>
        ELSE <<>>
  IN <<Lit("<div class=\"project-card "), Lit(project_class),
       Lit(" bg-white p-6 rounded-xl border-l-4 border-"), Lit(border_color),
       Lit("-500 ...\"><div class=\"flex items-start justify-between mb-3\"><span class=\""),
       Lit(status_class), Lit(" px-3 py-1 rounded-full text-sm font-medium\">"),
       Lit(status_text), Lit("</span><span class=\"text-gray-500 font-medium\">"),
       Val("year_start", year_start), Lit(" - "), Val("year_end", year_end),
       Lit("</span></div>")>>
     \o title_html \o original_html
     \o <<Lit("<div class=\"flex flex-wrap gap-2\"><span class=\"bg-gray-100 text-gray-700 px-2 py-1 rounded text-xs\">Funding: "),
          Val("funding", IF funding_str # <<>> THEN funding_str ELSE <<"N/A">>),
          Lit("</span></div>")>>
     \o desc_html \o <<Lit("</div>")>>

generate_publication_html(pub) ==
  LET title == Escape(DictGet(pub, "title", <<"Unknown Title">>))
      authors == Escape(DictGet(pub, "authors", <<"Unknown Authors">>))
      venue == Escape(DictGet(pub, "venue", <<"Unknown Venue">>))
      year == DictGet(pub, "year", <<>>)
      citations == DictGet(pub, "citations", 0)
      url == DictGet(pub, "url", <<"#">>)
      venue_text == IF year # <<>>
                    THEN <<Val("venue", venue), Lit(", "), Val("year", year)>>
                    ELSE <<Val("venue", venue)>>
  IN <<Lit("<div class=\"publication-item ...\"><div class=\"flex items-start justify-between\"><div class=\"flex-1\"><h3 class=\"font-semibold text-gray-900 mb-2\"><a href=\""),
       Val("url", url),
       Lit("\" target=\"_blank\" rel=\"noopener\" class=\"hover:text-blue-600 transition-colors\">"),
       Val("title", title),
       Lit("</a></h3><p class=\"text-sm text-gray-600 mb-1\">"),
       Val("authors", authors),
       Lit("</p><p class=\"text-sm text-gray-500\">")>>
     \o venue_text
     \o <<Lit("</p></div><div class=\"ml-4 text-right flex-shrink-0\"><span class=\"... bg-blue-100 text-blue-800\">"),
          Val("citations", format_number(citations)),
          Lit(" citations</span></div></div></div>")>>

PubTypes == {"article", "conference", "book", "chapter"}

\* the colour generate_publications_html gives each type
TypeColor(pub_type) ==
  CASE pub_type = "article" -> "blue"
    [] pub_type = "conference" -> "green"
    [] pub_type = "book" -> "purple"
    [] pub_type = "chapter" -> "orange"

\* a count as a page shows it: str(len(list))
Count(field, list) == Val(field, DecStr(Len(list)))

\* "\n\n".join(generate_publication_card(x, pub_type, color) for x in list)
PublicationCards(list, pub_type) ==
  Join([i \in 1..Len(list) |->
          generate_publication_card(list[i], pub_type, TypeColor(pub_type))],
       <<Lit("\n\n")>>)

\* one section of the publications page: its count, its heading, its cards
PublicationSection(id, heading, field, list, pub_type) ==
  <<Lit("<section id=\""), Lit(id),
    Lit("\" class=\"publication-section mb-12\"><h2 ...><span class=\"bg-"),
    Lit(TypeColor(pub_type)), Lit("-600 text-white px-3 py-1 rounded-lg mr-3 text-sm\">"),
    Count(field, list), Lit("</span>"), Lit(heading),
    Lit("</h2><div class=\"space-y-3\">")>>
  \o PublicationCards(list, pub_type)
  \o <<Lit("</div></section>")>>

generate_publications_html(d, update_date) ==
  LET articles == DictGet(d, "articles", <<>>)
      conference_papers == DictGet(d, "conference_papers", <<>>)
      books == DictGet(d, "books", <<>>)
      book_chapters == DictGet(d, "book_chapters", <<>>)
  IN <<Lit("<!DOCTYPE html>...<h1 ...>Complete List of Publications</h1><p class=\"text-blue-200 text-lg\">"),
       Count("len(articles)", articles), Lit(" journal articles, "),
       Count("len(conference_papers)", conference_papers), Lit(" conference papers, "),
       Count("len(books)", books), Lit(" books, and "),
       Count("len(book_chapters)", book_chapters), Lit(" book chapters</p>"),
       Lit("<button ...>All Publications</button><button ...>Journal Articles ("),
       Count("len(articles)", articles),
       Lit(")</button><button ...>Conference Papers ("),
       Count("len(conference_papers)", conference_papers),
       Lit(")</button><button ...>Books ("),
       Count("len(books)", books),
       Lit(")</button><button ...>Book Chapters ("),
       Count("len(book_chapters)", book_chapters), Lit(")</button>")>>
     \o PublicationSection("articles", "Journal Articles", "len(articles)",
                           articles, "article")
     \o PublicationSection("conference", "Conference Papers",
                           "len(conference_papers)", conference_papers, "conference")
     \o PublicationSection("books", "Books", "len(books)", books, "book")
     \o PublicationSection("chapters", "Book Chapters", "len(book_chapters)",
                           book_chapters, "chapter")
     \o <<Lit("<footer ...>Data extracted from Curriculo Lattes (CNPq) - Last updated: "),
          Val("update_date", <<update_date>>), Lit("</footer>...</html>")>>

\* PROJECT_TRANSLATIONS, with one of its entries
PROJECT_TRANSLATIONS == <<"n">> :> [name |-> <<"N">>, description |-> <<"D">>]

\* p.get('status') == 'EM_ANDAMENTO', and the two lists made with it
IsOngoing(p) == "status" \in DOMAIN p /\ p.status = <<"EM_ANDAMENTO">>
OngoingUnlessConcluded(projects) ==
  SelectSeq(projects, LAMBDA p : DictGet(p, "status", <<>>) # <<"CONCLUIDO">>)
Ongoing(projects) == SelectSeq(projects, IsOngoing)
CompletedOnlyConcluded(projects) ==
  SelectSeq(projects, LAMBDA p : DictGet(p, "status", <<>>) = <<"CONCLUIDO">>)
Completed(projects) == SelectSeq(projects, LAMBDA p : ~IsOngoing(p))

\* every list numbered from 0
ProjectCardsFromZero(list, first) ==
  Join([i \in 1..Len(list) |->
          generate_project_card(list[i], i - 1, PROJECT_TRANSLATIONS)],
       <<Lit("\n\n")>>)

\* "\n\n".join(generate_project_card(p, i + first, PROJECT_TRANSLATIONS)
\*             for i, p in enumerate(list))
ProjectCards(list, first) ==
  Join([i \in 1..Len(list) |->
          generate_project_card(list[i], i - 1 + first, PROJECT_TRANSLATIONS)],
       <<Lit("\n\n")>>)

ProjectSection(id, heading, field, list, first) ==
  <<Lit("<section id=\""), Lit(id), Lit("\" class=\"mb-12\"><h2 ...>"),
    Lit(heading), Lit(" ("), Count(field, list),
    Lit(")</h2><div class=\"space-y-6\">")>>
  \o ProjectCards(list, first)
  \o <<Lit("</div></section>")>>

generate_projects_html(d, update_date) ==
  LET projects == DictGet(d, "projects", <<>>)
      ongoing == Ongoing(projects)
      completed == Completed(projects)
  IN <<Lit("<!DOCTYPE html>...<h1 ...>Research Projects</h1><p class=\"text-indigo-200 text-lg\">"),
       Count("len(projects)", projects), Lit(" research projects ("),
       Count("len(ongoing)", ongoing), Lit(" ongoing, "),
       Count("len(completed)", completed), Lit(" completed) from "),
       [field |-> "", text |-> <<"2", "0", "0", "3">>], Lit(" to "),
       [field |-> "", text |-> <<"2", "0", "2", "5">>], Lit("</p>"),
       Lit("<button ...>All Projects ("), Count("len(projects)", projects),
       Lit(")</button><button ...>Ongoing ("), Count("len(ongoing)", ongoing),
       Lit(")</button><button ...>Completed ("), Count("len(completed)", completed),
       Lit(")</button>")>>
     \o ProjectSection("ongoing-section", "Ongoing Projects", "len(ongoing)",
                       ongoing, 0)
     \o ProjectSection("completed-section", "Completed Projects",
                       "len(completed)", completed, Len(ongoing))
     \o <<Lit("<footer ...>Data extracted from Curriculo Lattes (CNPq) - Last updated: "),
          Val("update_date", <<update_date>>), Lit("</footer>...</html>")>>

\* ------------------------------------------------------------------------
\* Renderer calls on records as the extractor and the Scholar fetch write
\* them, one value at a time replaced by any text up to MaxTextLen
\* characters, or its key left out
\* ------------------------------------------------------------------------
TextChars == {"a", "<", ">", "&", "\"", "'"}
TextVals == UNION {[1..k -> TextChars] : k \in 0..MaxTextLen}

Without(d, key) == [k \in DOMAIN d \ {key} |-> d[k]]

BasePub(pub_type) ==
  CASE pub_type = "article" ->
         [title |-> <<"T">>, title_en |-> <<>>, year |-> <<"1", "9">>,
          doi |-> <<>>, language |-> <<>>, authors |-> <<<<"A">>, <<"B">>>>,
          journal |-> <<"j">>, volume |-> <<"7">>, issue |-> <<"2">>,
          pages |-> <<"3", "-", "9">>, issn |-> <<>>]
    [] pub_type = "conference" ->
         [title |-> <<"T">>, title_en |-> <<>>, year |-> <<"1", "9">>,
          doi |-> <<>>, language |-> <<>>, authors |-> <<<<"A">>, <<"B">>>>,
          event |-> <<"e">>, event_en |-> <<>>, proceedings |-> <<>>,
          pages |-> <<"-">>, city |-> <<"c">>, country |-> <<"b">>]
    [] pub_type = "book" ->
         [title |-> <<"T">>, title_en |-> <<>>, year |-> <<"1", "9">>,
          doi |-> <<>>, authors |-> <<<<"A">>, <<"B">>>>,
          publisher |-> <<"p">>, isbn |-> <<>>, pages |-> <<"8">>]
    [] pub_type = "chapter" ->
         [title |-> <<"T">>, title_en |-> <<>>, year |-> <<"1", "9">>,
          doi |-> <<>>, authors |-> <<<<"A">>, <<"B">>>>,
          book_title |-> <<"k">>, publisher |-> <<"p">>, isbn |-> <<>>,
          pages |-> <<"3", "-", "9">>]

\* DOI values as Lattes holds them: a bare DOI, or a full URL
DoiVals ==
  {<<"1", "0", ".", "1", "/", "x">>, <<"h", "t", "t", "p">>,
   <<"h", "t", "t", "p", "s", ":", "/", "/", "d", "/", "x">>}

\* the fields the venue of a card is made of, and a record in which they
\* are all empty, as the extractor writes it for an element without details
VenueFields(pub_type) ==
  CASE pub_type = "article" -> {"journal", "volume", "pages"}
    [] pub_type = "conference" -> {"event", "event_en", "city", "country"}
    [] pub_type = "book" -> {"publisher"}
    [] pub_type = "chapter" -> {"book_title", "publisher"}
NoVenuePub(pub_type) ==
  [f \in DOMAIN BasePub(pub_type) |->
     IF f \in VenueFields(pub_type) THEN <<>> ELSE BasePub(pub_type)[f]]

PubInputs(pub_type) ==
  LET base == BasePub(pub_type)
  IN {[base EXCEPT ![f] = v] : f \in DOMAIN base \ {"authors"}, v \in TextVals}
     \cup {NoVenuePub(pub_type)}
     \cup {[base EXCEPT !.doi = v] : v \in DoiVals}
     \cup {[base EXCEPT !.authors = <<v>>] : v \in TextVals}
     \cup {[base EXCEPT !.authors = <<>>]}
     \cup {Without(base, f) : f \in DOMAIN base}

BaseProject ==
  [name |-> <<"n">>, year_start |-> <<"1", "9">>, year_end |-> <<>>,
   status |-> <<"EM_ANDAMENTO">>, nature |-> <<>>, description |-> <<>>,
   description_en |-> <<>>,
   funding |-> <<[agency |-> <<"Financiadora de Estudos e Projetos">>, nature |-> <<>>]>>,
   members |-> <<>>]

ProjectInputs ==
  {[BaseProject EXCEPT ![f] = v] :
     f \in {"name", "year_start", "year_end", "status", "description",
            "description_en"},
     v \in TextVals}
  \cup {[BaseProject EXCEPT !.funding = <<[agency |-> v, nature |-> <<>>]>>] :
          v \in TextVals}
  \cup {[BaseProject EXCEPT !.funding =
           @ \o <<[agency |-> <<"(FAPES) ", "Fundacao de Amparo a Pesquisa do Espirito Santo">>,
                   nature |-> <<>>]>>]}
  \cup {Without(BaseProject, f) : f \in DOMAIN BaseProject}

\* PROJECT_TRANSLATIONS: no entry for the project, or an entry
TranslationTables ==
  {<<>>, <<"n">> :> [name |-> <<"N">>, description |-> <<"D">>]}

BaseScholarPub ==
  [title |-> <<"T">>, authors |-> <<"A">>, venue |-> <<"V">>,
   year |-> <<"1", "9">>, citations |-> 1234, url |-> <<"u">>]

ScholarPubInputs ==
  {[BaseScholarPub EXCEPT ![f] = v] :
     f \in {"title", "authors", "venue", "year", "url"}, v \in TextVals}
  \cup {[BaseScholarPub EXCEPT !.citations = n] : n \in {0, 5, 999, 1000, 1234567}}
  \cup {Without(BaseScholarPub, f) : f \in DOMAIN BaseScholarPub}

\* the data file for a page: up to MaxElems records in each category,
\* a category key left out, projects of every status
PageCounts == [PubTypes -> 0..MaxElems]
PublicationData(n) ==
  [articles |-> [i \in 1..n["article"] |-> BasePub("article")],
   conference_papers |-> [i \in 1..n["conference"] |-> BasePub("conference")],
   books |-> [i \in 1..n["book"] |-> BasePub("book")],
   book_chapters |-> [i \in 1..n["chapter"] |-> BasePub("chapter")],
   projects |-> <<>>]
\* records that differ in title and year, so that their order shows on a page
PageRecords(pub_type) ==
  {[BasePub(pub_type) EXCEPT !.title = ti, !.year = y] :
     ti \in {<<"P">>, <<"Q", "&">>}, y \in {<<"2", "0">>, <<"<", "b", ">">>}}
CategoryKey(pub_type) ==
  CASE pub_type = "article" -> "articles"
    [] pub_type = "conference" -> "conference_papers"
    [] pub_type = "book" -> "books"
    [] pub_type = "chapter" -> "book_chapters"
OrderedDatas ==
  UNION {{[PublicationData([x \in PubTypes |-> 1]) EXCEPT ![CategoryKey(t)] = s] :
            s \in [1..2 -> PageRecords(t)]} : t \in PubTypes}
PublicationDatas ==
  {PublicationData(n) : n \in PageCounts}
  \cup OrderedDatas
  \cup {Without(PublicationData([t \in PubTypes |-> 1]), k) :
          k \in {"articles", "conference_papers", "books", "book_chapters"}}

PageProjects ==
  {[BaseProject EXCEPT !.year_start = <<"2", "0", "0", "3">>,
                       !.year_end = <<"2", "0", "2", "5">>],
   [BaseProject EXCEPT !.year_start = <<"2", "0", "1", "0">>],
   [BaseProject EXCEPT !.status = <<"CONCLUIDO">>,
                       !.year_start = <<"2", "0", "1", "0">>,
                       !.year_end = <<"2", "0", "1", "2">>],
   [BaseProject EXCEPT !.status = <<>>, !.year_start = <<"2", "0", "0", "5">>,
                       !.year_end = <<"2", "0", "0", "6">>],
   Without([BaseProject EXCEPT !.year_start = <<"2", "0", "0", "5">>,
                               !.year_end = <<"2", "0", "0", "6">>], "status"),
   [BaseProject EXCEPT !.description = <<"d">>,
                       !.year_start = <<"2", "0", "1", "0">>],
   [BaseProject EXCEPT !.name = <<"m">>, !.status = <<"CONCLUIDO">>,
                       !.year_start = <<"2", "0", "1", "0">>,
                       !.year_end = <<"2", "0", "1", "2">>]}
ProjectDatas ==
  {[EmptyData EXCEPT !.projects = p] :
     p \in UNION {[1..k -> PageProjects] : k \in 0..MaxElems}}
  \cup {Without(EmptyData, "projects")}

\* datetime.now().strftime('%B %Y')
Nows == {"November 2026", "December 2026"}

Calls ==
  UNION {{[fn |-> "generate_publication_card", pub |-> p, pub_type |-> t,
           color |-> TypeColor(t)] : p \in PubInputs(t)} : t \in PubTypes}
  \cup {[fn |-> "generate_project_card", proj |-> p, index |-> i,
         translations |-> tr] :
          p \in ProjectInputs, i \in 0..MaxElems, tr \in TranslationTables}
  \cup {[fn |-> "generate_publication_html", pub |-> p] : p \in ScholarPubInputs}
  \cup {[fn |-> "generate_publications_html", data |-> d, now |-> t] :
          d \in PublicationDatas, t \in Nows}
  \cup {[fn |-> "generate_projects_html", data |-> d, now |-> t] :
          d \in ProjectDatas, t \in Nows}

InitRender ==
  /\ argv = <<>>
  /\ inputFile = [exists |-> FALSE, wellFormed |-> FALSE, doc |-> <<>>]
  /\ outFile = OutFile("absent", EmptyData)
  /\ pc = "idle"
  /\ tree = <<>>
  /\ data = EmptyData
  /\ exc = "none"
  /\ exitCode = Running
  /\ call \in Calls
  /\ rpc = "call"
  /\ html = <<>>
  /\ UpdaterIdle
  /\ FetcherIdle
  /\ PagesIdle

Return(fragment) ==
  /\ html' = fragment
  /\ rpc' = "done"
  /\ UNCHANGED <<call, extractorVars, updaterVars, fetcherVars, pagesVars>>

GeneratePublicationCard ==
  /\ rpc = "call"
  /\ call.fn = "generate_publication_card"
  /\ Return(generate_publication_card(call.pub, call.pub_type, call.color))

GenerateProjectCard ==
  /\ rpc = "call"
  /\ call.fn = "generate_project_card"
  /\ Return(generate_project_card(call.proj, call.index, call.translations))

GeneratePublicationHtml ==
  /\ rpc = "call"
  /\ call.fn = "generate_publication_html"
  /\ Return(generate_publication_html(call.pub))

GeneratePublicationsHtml ==
  /\ rpc = "call"
  /\ call.fn = "generate_publications_html"
  /\ Return(generate_publications_html(call.data, call.now))

GenerateProjectsHtml ==
  /\ rpc = "call"
  /\ call.fn = "generate_projects_html"
  /\ Return(generate_projects_html(call.data, call.now))

NextRender ==
  \/ GeneratePublicationCard
  \/ GenerateProjectCard
  \/ GeneratePublicationHtml
  \/ GeneratePublicationsHtml
  \/ GenerateProjectsHtml

SpecRender == InitRender /\ [][NextRender]_vars

\* ------------------------------------------------------------------------
\* Properties of the renderers
\* ------------------------------------------------------------------------
Reserved == {"<", ">", "&", "\""}

\* C10: in every fragment the renderers produce, every value taken from the
\* input record is HTML-escaped: no record value reaches the markup with an
\* unescaped '<', '>', '&' or '"'.
C10_RecordValuesEscaped ==
  rpc = "done" =>
    \A i \in 1..Len(html) :
      html[i].field # "" =>
        \A k \in 1..Len(html[i].text) : html[i].text[k] \notin Reserved

\* the title link of a publication card: its position, and its target
LinkAt == {i \in 1..Len(html) : html[i] = Lit("<a href=\"")}
HasLink == LinkAt # {}
LinkClose ==
  Lit("\" target=\"_blank\" rel=\"noopener\" class=\"hover:text-blue-600\">")
RECURSIVE UpToClose(_)
UpToClose(markup) ==
  IF markup = <<>> \/ Head(markup) = LinkClose
  THEN <<>> ELSE Head(markup).text \o UpToClose(Tail(markup))
Href == LET i == CHOOSE j \in LinkAt : TRUE
        IN UpToClose(SubSeq(html, i + 1, Len(html)))
CardDone == rpc = "done" /\ call.fn = "generate_publication_card"
CardDoi == DictGet(call.pub, "doi", <<>>)
IsFullUrl(doi) == StartsWith(doi, <<"h", "t", "t", "p">>)
\* the element the title sits in: the text of the segment before it
TitlePlain ==
  \E i \in 2..Len(html) :
    /\ html[i].field = "title"
    /\ html[i - 1] = Lit("<div class=\"flex-1 min-w-0\"><h3 class=\"font-semibold text-gray-900 mb-1\">")

\* C11 (as stated): generate_publication_card renders the title as a link
\* exactly when the DOI is non-empty and is not already a full URL, with
\* target "https://doi.org/" + DOI; when the DOI is empty or already a full
\* URL no link is emitted and the title is plain text.
C11_LinkOnlyForBareDoi ==
  CardDone =>
    IF CardDoi # <<>> /\ ~IsFullUrl(CardDoi)
    THEN HasLink /\ Href = <<"https://doi.org/">> \o CardDoi
    ELSE ~HasLink /\ TitlePlain

\* C11 (amended): the title is a link exactly when the DOI is non-empty; the
\* target is "https://doi.org/" + DOI when the DOI does not start with
\* "http" and the DOI itself when it does; with an empty or missing DOI no
\* link is emitted and the title is plain text.
C11_LinkWheneverDoi ==
  CardDone =>
    IF CardDoi # <<>>
    THEN /\ HasLink
         /\ ~TitlePlain
         /\ Href = IF IsFullUrl(CardDoi) THEN CardDoi
                   ELSE <<"https://doi.org/">> \o CardDoi
    ELSE ~HasLink /\ TitlePlain

C11_Witness ==
  CardDone /\ IsFullUrl(CardDoi) /\ HasLink /\ Href = CardDoi

\* the pages: a page has been generated, what it shows for a count, and the
\* cards that stand in one of its sections
PageDone(fn) == rpc = "done" /\ call.fn = fn
Shown(field) == {html[k].text : k \in {x \in 1..Len(html) : html[x].field = field}}
SectionStart(id) ==
  CHOOSE i \in 1..(Len(html) - 1) : html[i] = Lit("<section id=\"") /\ html[i + 1] = Lit(id)
SectionEnd(id) ==
  CHOOSE j \in SectionStart(id)..Len(html) :
    /\ html[j] = Lit("</div></section>")
    /\ \A x \in SectionStart(id)..(j - 1) : html[x] # Lit("</div></section>")
CardsIn(id, open) == {k \in SectionStart(id)..SectionEnd(id) : html[k] = open}
PublicationCardOpen ==
  Lit("<div class=\"publication-card ...\"><div class=\"flex items-start gap-4\">")
ProjectCardOpen == Lit("<div class=\"project-card ")
PageCategories ==
  {<<"len(articles)", "articles", "articles">>,
   <<"len(conference_papers)", "conference_papers", "conference">>,
   <<"len(books)", "books", "books">>,
   <<"len(book_chapters)", "book_chapters", "chapters">>}
PageProjectList == DictGet(call.data, "projects", <<>>)

\* C17: every count a page shows is the size of the list it describes: on
\* the publications page each category total equals the length of that
\* category's list and the number of cards in its section; on the projects
\* page the ongoing and completed counts equal the numbers of cards in their
\* sections and add up to the total, each project being in one group.
C17_CountsMatchLists ==
  /\ PageDone("generate_publications_html") =>
       \A c \in PageCategories :
         /\ Shown(c[1]) = {DecStr(Len(DictGet(call.data, c[2], <<>>)))}
         /\ Cardinality(CardsIn(c[3], PublicationCardOpen))
              = Len(DictGet(call.data, c[2], <<>>))
  /\ PageDone("generate_projects_html") =>
       LET ongoing == Cardinality(CardsIn("ongoing-section", ProjectCardOpen))
           completed == Cardinality(CardsIn("completed-section", ProjectCardOpen))
       IN /\ Shown("len(ongoing)") = {DecStr(ongoing)}
          /\ Shown("len(completed)") = {DecStr(completed)}
          /\ Shown("len(projects)") = {DecStr(Len(PageProjectList))}
          /\ ongoing + completed = Len(PageProjectList)
          /\ CardsIn("ongoing-section", ProjectCardOpen)
               \cap CardsIn("completed-section", ProjectCardOpen) = {}

C17_Witness ==
  /\ PageDone("generate_projects_html")
  /\ Shown("len(projects)") = {<<"2">>}
  /\ Shown("len(ongoing)") = {<<"1">>}
  /\ Cardinality(CardsIn("completed-section", ProjectCardOpen)) = 1
  /\ \E i \in 1..2 : "status" \notin DOMAIN PageProjectList[i]

\* the years of the projects, as numbers
ProjectYears ==
  {DecVal(PageProjectList[i].year_start) : i \in 1..Len(PageProjectList)}
  \cup {DecVal(PageProjectList[i].year_end) :
          i \in {x \in 1..Len(PageProjectList) : PageProjectList[x].year_end # <<>>}}

\* C18: the year range in the projects page header ('from <min> to <max>')
\* is computed from the data: it is the least and the greatest year among
\* the projects.
C18_YearRangeFromData ==
  (PageDone("generate_projects_html") /\ PageProjectList # <<>>) =>
    \E i \in 1..(Len(html) - 3) :
      /\ html[i] = Lit(" completed) from ")
      /\ html[i + 2] = Lit(" to ")
      /\ \A y \in ProjectYears :
           DecVal(html[i + 1].text) <= y /\ y <= DecVal(html[i + 3].text)
      /\ DecVal(html[i + 1].text) \in ProjectYears
      /\ DecVal(html[i + 3].text) \in ProjectYears

\* what a project card says of the status: its class, the class and the
\* text of its label; the card starts at html[k]
CardStatus(k) == <<html[k + 1], html[k + 5], html[k + 7]>>
OngoingCard == <<Lit("ongoing"), Lit("status-ongoing"), Lit("Ongoing")>>
CompletedCard == <<Lit("completed"), Lit("status-completed"), Lit("Completed")>>
StatusIs(p, status) == DictGet(p, "status", <<>>) = status

\* C19: a project is 'ongoing' exactly when its status is "EM_ANDAMENTO" and
\* 'completed' otherwise, an empty or missing status included; the status
\* label and the class of a card agree with the section that
\* generate_projects_html puts the card in.
C19_StatusAgreesWithSection ==
  /\ PageDone("generate_project_card") =>
       CardStatus(1) = IF StatusIs(call.proj, <<"EM_ANDAMENTO">>)
                       THEN OngoingCard ELSE CompletedCard
  /\ PageDone("generate_projects_html") =>
       /\ Cardinality(CardsIn("ongoing-section", ProjectCardOpen))
            = Cardinality({i \in 1..Len(PageProjectList) :
                             StatusIs(PageProjectList[i], <<"EM_ANDAMENTO">>)})
       /\ \A k \in CardsIn("ongoing-section", ProjectCardOpen) :
            CardStatus(k) = OngoingCard
       /\ \A k \in CardsIn("completed-section", ProjectCardOpen) :
            CardStatus(k) = CompletedCard

C19_Witness ==
  /\ PageDone("generate_projects_html")
  /\ Len(PageProjectList) = 2
  /\ StatusIs(PageProjectList[1], <<>>)
  /\ StatusIs(PageProjectList[2], <<"EM_ANDAMENTO">>)
  /\ \E k \in CardsIn("completed-section", ProjectCardOpen) :
       CardStatus(k) = CompletedCard
  /\ \E k \in CardsIn("ongoing-section", ProjectCardOpen) :
       CardStatus(k) = OngoingCard

\* ------------------------------------------------------------------------
\* generate_html.py: update_html.  A document is a str in tokens: a token is
\* one character or a chunk of text that no pattern can match part of.  The
\* '>' closing a tag the patterns look at is a token of its own; a chunk
\* holding a '>' or a '<' holds whole tags and starts with '<'.
\* ------------------------------------------------------------------------
MaxPubs == 2

CitationsId == "id=\"citations-count\""
HIndexId == "id=\"h-index\""
I10IndexId == "id=\"i10-index\""
DataValue == "data-value=\""
MetricClass == "class=\"metric-value\""
LastUpdatedLit == "Last updated: "
ListOpen == "<div id=\"publications-list\""
DivClose == "</div>"
ProfilesMarker == "<!-- Publication Profiles -->"

\* the template text of generate_publication_html
ItemChunks ==
  LET item == generate_publication_html(<<>>)
  IN {item[i].text[1] : i \in {j \in 1..Len(item) : item[j].field = ""}}

\* tokens holding a '>', tokens holding a '<', white space, line ends
TagChunks ==
  {"<span", "</span>", "<p>", "</p>", "<main>", "</main>", ListOpen, DivClose,
   ProfilesMarker, "<div class=\"publication-item old\">", "<a>"}
  \cup (ItemChunks \ {", "})
GtTokens == {">"} \cup (TagChunks \ {"<span", ListOpen})
LtTokens == {"<"} \cup TagChunks
NlTokens == {"\n"}
WsTokens == {" ", "      ", "        "} \cup NlTokens

\* the index of the last token of the longest run of tokens in S, or not in
\* S, that starts at s[i]; i - 1 when the run is empty
RunIn(s, i, S) ==
  CHOOSE j \in (i - 1)..Len(s) :
    /\ \A k \in i..j : s[k] \in S
    /\ j = Len(s) \/ s[j + 1] \notin S
RunNotIn(s, i, S) ==
  CHOOSE j \in (i - 1)..Len(s) :
    /\ \A k \in i..j : s[k] \notin S
    /\ j = Len(s) \/ s[j + 1] \in S

\* str(n)
Str(n) == IF n < 0 THEN <<"-">> \o DecStr(0 - n) ELSE DecStr(n)

\* id="..."[^>]*data-value="\d+"[^>]*> followed by the shown number, matched
\* at s[i]: the index of the '>' and of the last token of the match (0: none)
CounterGt(s, i) == RunNotIn(s, i + 1, GtTokens) + 1
CounterEnd(s, i, id, shown) ==
  LET g == CounterGt(s, i)
  IN IF /\ s[i] = id
        /\ g + 1 <= Len(s)
        /\ s[g] = ">"
        /\ \E k \in (i + 1)..(g - 1) :
             /\ s[k] = DataValue
             /\ RunIn(s, k + 1, Digits) >= k + 1
             /\ RunIn(s, k + 1, Digits) + 1 <= g - 1
             /\ s[RunIn(s, k + 1, Digits) + 1] = "\""
        /\ s[g + 1] \in Digits
     THEN RunIn(s, g + 2, shown) ELSE 0

\* the least number of a set of numbers
Least(S) == CHOOSE m \in S : \A k \in S : m <= k

\* re.sub of a counter pattern by repl, from s[i] on: the leftmost match is
\* replaced and the search goes on after it
RECURSIVE SubCounter(_, _, _, _, _)
SubCounter(s, i, id, shown, repl) ==
  LET starts == {k \in i..Len(s) : CounterEnd(s, k, id, shown) # 0}
  IN IF starts = {} THEN SubSeq(s, i, Len(s))
     ELSE SubSeq(s, i, Least(starts) - 1) \o repl
          \o SubCounter(s, CounterEnd(s, Least(starts), id, shown) + 1,
                        id, shown, repl)

\* the replacement of a counter: id, class, data-value and the shown number
CounterRepl(id, value, shown) ==
  <<id, " ", MetricClass, " ", DataValue>> \o Str(value) \o <<"\"", ">">>
  \o shown

\* re.sub(r'Last updated: [^<]+', ...), from s[i] on
RECURSIVE SubLastUpdated(_, _, _)
SubLastUpdated(s, i, repl) ==
  LET starts == {k \in i..Len(s) : /\ s[k] = LastUpdatedLit
                                   /\ RunNotIn(s, k + 1, LtTokens) >= k + 1}
  IN IF starts = {} THEN SubSeq(s, i, Len(s))
     ELSE SubSeq(s, i, Least(starts) - 1) \o repl
          \o SubLastUpdated(s, RunNotIn(s, Least(starts) + 1, LtTokens) + 1, repl)

\* datetime.fromisoformat(s.replace('Z', '+00:00')).strftime('%B %Y') of a
\* str in the tokens year, '-', month, '-', day and time, zone
Months ==
  [m \in {"01", "02", "03", "04", "05", "06", "07", "08", "09", "10", "11", "12"} |->
     CASE m = "01" -> "January" [] m = "02" -> "February" [] m = "03" -> "March"
       [] m = "04" -> "April" [] m = "05" -> "May" [] m = "06" -> "June"
       [] m = "07" -> "July" [] m = "08" -> "August" [] m = "09" -> "September"
       [] m = "10" -> "October" [] m = "11" -> "November" [] m = "12" -> "December"]
Years == {"2020", "2026"}
IsoRaises(s) ==
  LET t == Replace(s, <<"Z">>, <<"+00:00">>)
  IN ~ /\ Len(t) \in {5, 6}
       /\ t[1] \in Years /\ t[2] = "-" /\ t[3] \in DOMAIN Months /\ t[4] = "-"
       /\ t[5] = "06T00:00:00"
       /\ Len(t) = 6 => t[6] = "+00:00"
FormattedDate(s) == <<Months[s[3]], " ", s[1]>>

\* the replacement template of re.sub: a backslash and the token after it
\* are a group reference or an escape; one the pattern or Python does not
\* know is an error, raised before the pattern is searched for (octal
\* escapes and \g<..> aside, which no template here holds)
AsciiLetters ==
  {"a", "b", "c", "d", "e", "f", "g", "h", "i", "j", "k", "l", "m", "n", "o",
   "p", "q", "r", "s", "t", "u", "v", "w", "x", "y", "z",
   "A", "B", "C", "D", "E", "F", "G", "H", "I", "J", "K", "L", "M", "N", "O",
   "P", "Q", "R", "S", "T", "U", "V", "W", "X", "Y", "Z"}
TemplateEscapes ==
  [c \in {"a", "b", "f", "n", "r", "t", "v", "\\"} |->
     CASE c = "a" -> "BEL" [] c = "b" -> "BS" [] c = "f" -> "\f"
       [] c = "n" -> "\n" [] c = "r" -> "\r" [] c = "t" -> "\t"
       [] c = "v" -> "VT" [] c = "\\" -> "\\"]
GroupRefs == {"1", "2"}
IsGroupRef(t) ==
  t[2] \in GroupRefs /\ (Len(t) >= 3 => t[3] \notin Digits)
BadEscape(t) ==
  /\ t[2] \in (AsciiLetters \cup Digits) \ DOMAIN TemplateEscapes
  /\ ~IsGroupRef(t)

\* the backslashes of a template that start an escape: those with a token
\* after them and an even number of backslashes right before them
EscapeStarts(t) ==
  {k \in 1..(Len(t) - 1) :
     /\ t[k] = "\\"
     /\ \E j \in 0..(k - 1) :
          /\ (k - 1 - j) % 2 = 0
          /\ \A x \in (j + 1)..(k - 1) : t[x] = "\\"
          /\ j > 0 => t[j] # "\\"}

TemplateRaises(t) ==
  \E k \in EscapeStarts(t) : BadEscape(SubSeq(t, k, Len(t)))

\* the template with its escapes and group references replaced
Expand(t, g1, g2) ==
  LET starts == EscapeStarts(t)
      rest[i \in 1..(Len(t) + 1)] ==
        LET next == {k \in starts : k >= i}
            b == Least(next)
            e == SubSeq(t, b, Len(t))
        IN IF next = {} THEN SubSeq(t, i, Len(t))
           ELSE SubSeq(t, i, b - 1)
                \o (IF IsGroupRef(e) THEN (IF e[2] = "1" THEN g1 ELSE g2)
                    ELSE IF e[2] \in DOMAIN TemplateEscapes
                         THEN <<TemplateEscapes[e[2]]>>
                         ELSE <<e[1], e[2]>>)
                \o rest[b + 2]
  IN rest[1]

\* (<div id="publications-list"[^>]*>)\s*(?:.*?)(</div>\s*\n\s*<!-- Publication Profiles -->)
\* matched at s[i]: the '>' of the opening tag, the first </div> that white
\* space with a line end separates from the marker, and the marker
ListGt(s, i) == RunNotIn(s, i + 1, GtTokens) + 1
ListClosers(s, i) ==
  {j \in (ListGt(s, i) + 1)..Len(s) :
     /\ s[j] = DivClose
     /\ LET w == RunIn(s, j + 1, WsTokens)
        IN /\ w + 1 <= Len(s)
           /\ s[w + 1] = ProfilesMarker
           /\ \E k \in (j + 1)..w : s[k] \in NlTokens}
ListMatches(s, i) ==
  /\ s[i] = ListOpen
  /\ ListGt(s, i) <= Len(s)
  /\ s[ListGt(s, i)] = ">"
  /\ ListClosers(s, i) # {}
ListClose(s, i) == CHOOSE j \in ListClosers(s, i) : \A k \in ListClosers(s, i) : j <= k
ListEnd(s, i) == RunIn(s, ListClose(s, i) + 1, WsTokens) + 1

\* re.sub(pattern, replacement, html_content, flags=re.DOTALL), from s[i] on
RECURSIVE SubList(_, _, _)
SubList(s, i, template) ==
  LET starts == {k \in i..Len(s) : ListMatches(s, k)}
      m == Least(starts)
  IN IF starts = {} THEN SubSeq(s, i, Len(s))
     ELSE SubSeq(s, i, m - 1)
          \o Expand(template, SubSeq(s, m, ListGt(s, m)),
                    SubSeq(s, ListClose(s, m), ListEnd(s, m)))
          \o SubList(s, ListEnd(s, m) + 1, template)

\* '\n        \n'.join(generate_publication_html(pub) for pub in publications)
PubsHtml(publications) ==
  Join([i \in 1..Len(publications) |-> Text(generate_publication_html(publications[i]))],
       <<"\n", "        ", "\n">>)

\* rf'\1\n{pubs_html}\n      \2'
ListTemplate(pubs_html) ==
  <<"\\", "1", "\\", "n">> \o pubs_html \o <<"\\", "n", "      ", "\\", "2">>

\* ------------------------------------------------------------------------
\* Documents and metrics for generate_html.py: index.html with its anchors
\* as the site writes them, each in turn written another way or left out,
\* and scholar_metrics.json as fetch_scholar.py saves it
\* ------------------------------------------------------------------------
Anchor(id, before, current, after, shown) ==
  <<"<span", " ", id>> \o before \o <<" ", DataValue>> \o current \o <<"\"">>
  \o after \o <<">">> \o shown \o <<"</span>">>

StdCitations == Anchor(CitationsId, <<" ", MetricClass>>, <<"5">>, <<>>, <<"5">>)
CitationsAnchors ==
  {StdCitations,
   Anchor(CitationsId, <<" ", MetricClass>>, <<"1", "2", "3", "4">>, <<>>,
          <<"1", ",", "2", "3", "4">>),
   Anchor(CitationsId, <<" ", "class=\"big\"">>, <<"5">>, <<" ", "title=\"t\"">>, <<"5">>),
   Anchor(CitationsId, <<>>, <<"0">>, <<>>, <<"0">>),
   Anchor(CitationsId, <<" ", MetricClass>>, <<"-", "5">>, <<>>, <<"-", "5">>),
   <<"<span", " ", DataValue, "5", "\"", " ", CitationsId, ">", "5", "</span>">>,
   <<>>}

StdHIndex == Anchor(HIndexId, <<" ", MetricClass>>, <<"4">>, <<>>, <<"4">>)
HIndexAnchors ==
  {StdHIndex,
   Anchor(HIndexId, <<" ", MetricClass>>, <<"4">>, <<" ", "title=\"t\"">>, <<"4">>),
   <<>>}

StdI10Index == Anchor(I10IndexId, <<" ", MetricClass>>, <<"2">>, <<>>, <<"2">>)
I10IndexAnchors == {StdI10Index, <<>>}

StdLastUpdated == <<"<p>", LastUpdatedLit, "January 2020", "</p>">>
LastUpdatedLines == {StdLastUpdated, <<>>}

ListRegion(content) ==
  <<ListOpen, " ", "class=\"space-y-4\"", ">", "\n">> \o content
  \o <<"      ", DivClose, "\n", "\n", "      ", ProfilesMarker>>
OldItem == <<"<div class=\"publication-item old\">", "old", DivClose, "\n">>
StdList == ListRegion(OldItem)
ListRegions ==
  {StdList, ListRegion(<<>>), ListRegion(OldItem \o OldItem),
   <<ListOpen, ">", DivClose, " ", ProfilesMarker>>, <<>>}

HtmlDoc(c, h, i, u, l) == <<"<main>">> \o c \o h \o i \o u \o l \o <<"</main>">>
HtmlDocs ==
  {HtmlDoc(c, StdHIndex, StdI10Index, StdLastUpdated, StdList) : c \in CitationsAnchors}
  \cup {HtmlDoc(StdCitations, h, StdI10Index, StdLastUpdated, StdList) : h \in HIndexAnchors}
  \cup {HtmlDoc(StdCitations, StdHIndex, i, StdLastUpdated, StdList) : i \in I10IndexAnchors}
  \cup {HtmlDoc(StdCitations, StdHIndex, StdI10Index, u, StdList) : u \in LastUpdatedLines}
  \cup {HtmlDoc(StdCitations, StdHIndex, StdI10Index, StdLastUpdated, l) : l \in ListRegions}
  \cup {HtmlDoc(<<>>, <<>>, <<>>, <<>>, <<>>)}

\* the publications of the metrics file: plain ones, titles holding a
\* backslash, and a url holding markup
TopPubs ==
  {BaseScholarPub,
   [BaseScholarPub EXCEPT !.title = <<"Z">>, !.citations = 5],
   [BaseScholarPub EXCEPT !.title = <<"a", "\\", "n", "b">>],
   [BaseScholarPub EXCEPT !.title = <<"a", "\\", "q">>],
   [BaseScholarPub EXCEPT !.title = <<"\\", "2">>],
   [BaseScholarPub EXCEPT !.url = <<"u", "\"", ">", DivClose, "\n", ProfilesMarker>>]}
TopPubLists == UNION {[1..k -> TopPubs] : k \in 0..MaxPubs}

BaseMetrics ==
  [metrics |-> [citations |-> 1234, h_index |-> 7, i10_index |-> 3],
   last_updated |-> <<"2026", "-", "11", "-", "06T00:00:00", "Z">>,
   top_publications |-> <<BaseScholarPub>>]
MetricsInputs ==
  {[BaseMetrics EXCEPT !.metrics.citations = n] : n \in {0, 7, 999, 1000, 1234567}}
  \cup {[BaseMetrics EXCEPT !.last_updated = d] :
          d \in {<<"2020", "-", "01", "-", "06T00:00:00">>,
                 <<"2026", "-", "11", "-", "06T00:00:00", "+00:00">>,
                 <<"yesterday">>, <<>>}}
  \cup {[BaseMetrics EXCEPT !.top_publications = p] : p \in TopPubLists}
  \cup {Without(BaseMetrics, "top_publications")}

\* ------------------------------------------------------------------------
\* generate_html.py: main, run up to twice on the same metrics file
\* ------------------------------------------------------------------------
InitHtml ==
  /\ argv = <<>>
  /\ inputFile = [exists |-> FALSE, wellFormed |-> FALSE, doc |-> <<>>]
  /\ outFile = OutFile("absent", EmptyData)
  /\ pc = "idle"
  /\ tree = <<>>
  /\ data = EmptyData
  /\ exc = "none"
  /\ exitCode = Running
  /\ RendererIdle
  /\ FetcherIdle
  /\ PagesIdle
  /\ \/ /\ metricsFile \in [exists : {TRUE}, content : MetricsInputs]
        /\ htmlFile \in [exists : {TRUE}, content : HtmlDocs]
     \/ /\ metricsFile = [exists |-> FALSE, content |-> <<>>]
        /\ htmlFile \in [exists : BOOLEAN, content : {HtmlDoc(StdCitations, <<>>, <<>>, <<>>, <<>>)}]
     \/ /\ metricsFile = [exists |-> TRUE, content |-> BaseMetrics]
        /\ htmlFile = [exists |-> FALSE, content |-> <<>>]
  /\ gpc = "main"
  /\ metrics = <<>>
  /\ html_content = <<>>
  /\ updated_html = <<>>
  /\ written = <<>>
  /\ runs = 1
  /\ gexc = "none"
  /\ gexit = Running

GhExit(code, e) ==
  /\ gpc' = "exit"
  /\ gexit' = code
  /\ gexc' = e

\* metrics = load_metrics(): sys.exit(1) when the metrics file is missing
LoadMetrics ==
  /\ gpc = "main"
  /\ IF ~metricsFile.exists
     THEN GhExit(1, "SystemExit") /\ UNCHANGED metrics
     ELSE /\ metrics' = metricsFile.content
          /\ gpc' = "check_html"
          /\ UNCHANGED <<gexit, gexc>>
  /\ UNCHANGED <<metricsFile, htmlFile, html_content, updated_html, written, runs>>
  /\ UNCHANGED <<extractorVars, rendererVars, fetcherVars, pagesVars>>

\* index.html read as an empty document when it is missing
ReadHtmlOrEmpty ==
  /\ gpc = "check_html"
  /\ html_content' = htmlFile.content
  /\ gpc' = "update"
  /\ UNCHANGED <<gexit, gexc>>
  /\ UNCHANGED <<metricsFile, htmlFile, metrics, updated_html, written, runs>>
  /\ UNCHANGED <<extractorVars, rendererVars, fetcherVars, pagesVars>>

\* if not HTML_FILE.exists(): sys.exit(1); else html_content = f.read()
ReadHtml ==
  /\ gpc = "check_html"
  /\ IF ~htmlFile.exists
     THEN GhExit(1, "SystemExit") /\ UNCHANGED html_content
     ELSE /\ html_content' = htmlFile.content
          /\ gpc' = "update"
          /\ UNCHANGED <<gexit, gexc>>
  /\ UNCHANGED <<metricsFile, htmlFile, metrics, updated_html, written, runs>>
  /\ UNCHANGED <<extractorVars, rendererVars, fetcherVars, pagesVars>>

\* updated_html = update_html(html_content, metrics): the three counters,
\* the date and the publications list are substituted in turn; an exception
\* (of fromisoformat, of re.sub) is not caught and ends the run
UpdateHtml ==
  /\ gpc = "update"
  /\ LET citations == metrics.metrics.citations
         h_index == metrics.metrics.h_index
         i10_index == metrics.metrics.i10_index
         publications == DictGet(metrics, "top_publications", <<>>)
     IN \E c1 \in {SubCounter(html_content, 1, CitationsId, Digits \cup {","},
                     CounterRepl(CitationsId, citations, format_number(citations)))} :
        \E c2 \in {SubCounter(c1, 1, HIndexId, Digits,
                     CounterRepl(HIndexId, h_index, Str(h_index)))} :
        \E c3 \in {SubCounter(c2, 1, I10IndexId, Digits,
                     CounterRepl(I10IndexId, i10_index, Str(i10_index)))} :
          IF IsoRaises(metrics.last_updated)
          THEN GhExit(1, "ValueError") /\ UNCHANGED updated_html
          ELSE \E dated \in {SubLastUpdated(c3, 1,
                    <<LastUpdatedLit>> \o FormattedDate(metrics.last_updated))} :
               \E replacement \in {ListTemplate(PubsHtml(publications))} :
                 IF publications = <<>>
                 THEN /\ updated_html' = dated
                      /\ gpc' = "write"
                      /\ UNCHANGED <<gexit, gexc>>
                 ELSE IF TemplateRaises(replacement)
                 THEN GhExit(1, "re.error") /\ UNCHANGED updated_html
                 ELSE /\ updated_html' = SubList(dated, 1, replacement)
                      /\ gpc' = "write"
                      /\ UNCHANGED <<gexit, gexc>>
  /\ UNCHANGED <<metricsFile, htmlFile, metrics, html_content, written, runs>>
  /\ UNCHANGED <<extractorVars, rendererVars, fetcherVars, pagesVars>>

\* with open(HTML_FILE, 'w') as f: f.write(updated_html); return 0
WriteHtml ==
  /\ gpc = "write"
  /\ htmlFile' = [exists |-> TRUE, content |-> updated_html]
  /\ written' = Append(written, updated_html)
  /\ GhExit(0, "none")
  /\ UNCHANGED <<metricsFile, metrics, html_content, updated_html, runs>>
  /\ UNCHANGED <<extractorVars, rendererVars, fetcherVars, pagesVars>>

\* the workflow runs the script again on the files as they are
RunAgain ==
  /\ gpc = "exit"
  /\ gexit = 0
  /\ runs < 2
  /\ runs' = runs + 1
  /\ gpc' = "main"
  /\ gexit' = Running
  /\ metrics' = <<>>
  /\ html_content' = <<>>
  /\ updated_html' = <<>>
  /\ UNCHANGED <<metricsFile, htmlFile, written, gexc>>
  /\ UNCHANGED <<extractorVars, rendererVars, fetcherVars, pagesVars>>

NextHtml ==
  \/ LoadMetrics
  \/ ReadHtml
  \/ UpdateHtml
  \/ WriteHtml
  \/ RunAgain

SpecHtml == InitHtml /\ [][NextHtml]_vars

\* ------------------------------------------------------------------------
\* Properties of update_html and of generate_html.py's main
\* ------------------------------------------------------------------------
\* update_html has returned: html_content is the document it was given,
\* updated_html the document it returned
Updated == gpc = "write"

\* the anchors of a counter in a document, and what one shows: the value of
\* its data-value attribute and the text up to the next tag
AnchorsOf(s, id) == {i \in 1..Len(s) : s[i] = id}
TagEnd(s, i) == Least({g \in i..Len(s) : s[g] = ">"})
AnchorValue(s, i) ==
  LET k == Least({x \in i..TagEnd(s, i) : s[x] = DataValue})
  IN SubSeq(s, k + 1, RunNotIn(s, k + 1, {"\""}))
AnchorText(s, i) ==
  SubSeq(s, TagEnd(s, i) + 1, RunNotIn(s, TagEnd(s, i) + 1, LtTokens))

\* s[i] is a counter anchor as the site writes it: the id, then in the same
\* tag a data-value attribute holding a decimal number, then the number shown
IsNumber(text) == text # <<>> /\ \A k \in 1..Len(text) : text[k] \in Digits
IsShownNumber(text) ==
  /\ text # <<>> /\ text[1] \in Digits
  /\ \A k \in 1..Len(text) : text[k] \in Digits \cup {","}
IsAnchor(s, i, id) ==
  /\ s[i] = id
  /\ \E g \in i..Len(s) : s[g] \in GtTokens
  /\ LET g == Least({x \in i..Len(s) : s[x] \in GtTokens})
     IN /\ s[g] = ">"
        /\ \E k \in i..g : s[k] = DataValue
        /\ IsNumber(AnchorValue(s, i))
        /\ IsShownNumber(AnchorText(s, i))

\* a number shown with thousands separators: a comma before every group of
\* three digits counted from the right, and nowhere else
Grouped(text) ==
  \A k \in 1..Len(text) : (text[k] = ",") <=> ((Len(text) - k + 1) % 4 = 0)
Ungrouped(text) == SelectSeq(text, LAMBDA c : c # ",")

Counters == {<<CitationsId, Digits \cup {","}>>, <<HIndexId, Digits>>, <<I10IndexId, Digits>>}
CounterOccurs(s, id, shown) == \E k \in 1..Len(s) : CounterEnd(s, k, id, shown) # 0
DateOccurs(s) ==
  \E k \in 1..Len(s) : s[k] = LastUpdatedLit /\ RunNotIn(s, k + 1, LtTokens) >= k + 1
ListOccurs(s) == \E k \in 1..Len(s) : ListMatches(s, k)

\* update_html has returned or raised
AfterUpdate == gpc = "write" \/ (gpc = "exit" /\ gexc \in {"ValueError", "re.error"})

\* what a document holds of a counter: from each id to the end of its element
CounterField(s, id) ==
  {SubSeq(s, i, RunNotIn(s, i, {"</span>"})) : i \in AnchorsOf(s, id)}

\* C13: in update_html, when the anchor pattern of a field (citations,
\* h-index, i10-index, last-updated line, publications list) does not occur
\* in the document, that field is left unchanged and no error is raised;
\* when none of the patterns occurs, the returned document equals the input.
C13_MissingAnchorLeavesField ==
  (AfterUpdate /\ ~IsoRaises(metrics.last_updated)) =>
    /\ \A c \in Counters :
         ~CounterOccurs(html_content, c[1], c[2]) =>
           /\ gexc = "none"
           /\ CounterField(updated_html, c[1]) = CounterField(html_content, c[1])
    /\ ~DateOccurs(html_content) => gexc = "none"
    /\ ~ListOccurs(html_content) => gexc = "none"
    /\ (/\ \A c \in Counters : ~CounterOccurs(html_content, c[1], c[2])
        /\ ~DateOccurs(html_content)
        /\ ~ListOccurs(html_content)) =>
         gexc = "none" /\ updated_html = html_content

\* the tag of a counter anchor without the digits of its data-value
AnchorTag(s, i) ==
  LET k == Least({x \in i..TagEnd(s, i) : s[x] = DataValue})
  IN SubSeq(s, i, k) \o SubSeq(s, RunIn(s, k + 1, Digits) + 1, TagEnd(s, i))
AnchorTags(s, id) == {AnchorTag(s, i) : i \in {x \in AnchorsOf(s, id) : IsAnchor(s, x, id)}}

\* C14: when update_html updates a counter anchor it changes only the
\* numeric value: every other character of the anchor's own tag (the class
\* and any further attribute between the id and '>') is the same in the
\* returned document as in the input.
C14_OnlyNumbersChange ==
  Updated =>
    \A c \in Counters :
      AnchorTags(updated_html, c[1]) = AnchorTags(html_content, c[1])

\* the content of the publications list of a document: what stands between
\* the opening tag and the closing </div>, white space aside
ListStart(s) == Least({k \in 1..Len(s) : ListMatches(s, k)})
ListContent(s) ==
  SelectSeq(SubSeq(s, ListGt(s, ListStart(s)) + 1, ListClose(s, ListStart(s)) - 1),
            LAMBDA t : t \notin WsTokens)
RECURSIVE Concat(_)
Concat(strs) == IF strs = <<>> THEN <<>> ELSE Head(strs) \o Concat(Tail(strs))
Fragments(publications) ==
  Concat([i \in 1..Len(publications) |->
            Text(generate_publication_html(publications[i]))])

\* C15: update_html replaces the text after 'Last updated: ' by last_updated
\* as month name and year, and replaces all that stands between the opening
\* tag of <div id="publications-list"> and the closing </div> before
\* <!-- Publication Profiles --> by one fragment per entry of
\* top_publications, in the order of the list, nothing of the previous
\* content remaining.
C15_DateAndListReplaced ==
  Updated =>
    /\ DateOccurs(html_content) =>
         \A k \in 1..Len(updated_html) :
           updated_html[k] = LastUpdatedLit =>
             SubSeq(updated_html, k + 1, RunNotIn(updated_html, k + 1, LtTokens))
               = FormattedDate(metrics.last_updated)
    /\ ListOccurs(html_content) =>
         /\ ListOccurs(updated_html)
         /\ ListContent(updated_html)
              = Fragments(DictGet(metrics, "top_publications", <<>>))

\* C16: generate_html.py opens index.html for writing only after the metrics
\* file and index.html were both found and update_html has returned: a run
\* with either file missing ends with exit code 1 and nothing written, a run
\* in which update_html raises leaves index.html as it was, and a run writes
\* the new content in one write call.
C16_WriteOnlyAfterUpdate ==
  /\ [](/\ Len(written) <= runs
        /\ (gpc = "exit" /\ (~metricsFile.exists \/ ~htmlFile.exists)) =>
             (gexit = 1 /\ written = <<>>))
  /\ [][/\ (htmlFile' # htmlFile \/ written' # written) =>
             (/\ gpc = "write"
              /\ metricsFile.exists /\ htmlFile.exists
              /\ written' = Append(written, updated_html)
              /\ htmlFile' = [exists |-> TRUE, content |-> updated_html])
        /\ (gpc = "update" /\ gpc' = "exit") =>
             (gexit' = 1 /\ htmlFile' = htmlFile /\ written' = written)]_vars

C16_Witness ==
  /\ gpc = "exit" /\ gexit = 1 /\ gexc = "re.error"
  /\ runs = 1 /\ written = <<>>
  /\ htmlFile.content = html_content

\* C20: update_html is idempotent: a second run on the document the first
\* run wrote, with the same metrics, writes the same document,
\* update_html(update_html(d, m), m) = update_html(d, m).
C20_SecondRunWritesTheSame ==
  Len(written) = 2 => written[2] = written[1]

\* ------------------------------------------------------------------------
\* Reading the emitted markup back.  The rendered str is read as characters:
\* text content runs up to the next '<', whether that '<' is the template's
\* or came out of a record value, and character references stand for the
\* characters html.escape replaced.
\* ------------------------------------------------------------------------
\* the characters of a whole page, put together by halves
RECURSIVE TextBetween(_, _, _)
TextBetween(markup, lo, hi) ==
  IF lo > hi THEN <<>>
  ELSE IF lo = hi THEN markup[lo].text
  ELSE TextBetween(markup, lo, (lo + hi) \div 2)
       \o TextBetween(markup, (lo + hi) \div 2 + 1, hi)
PageText(markup) == TextBetween(markup, 1, Len(markup))

UnescapeChar(c) ==
  CASE c = "&amp;" -> "&"
    [] c = "&lt;" -> "<"
    [] c = "&gt;" -> ">"
    [] c = "&quot;" -> "\""
    [] c = "&#x27;" -> "'"
    [] OTHER -> c
Unescape(s) == [i \in 1..Len(s) |-> UnescapeChar(s[i])]

CardOpenText == PublicationCardOpen.text[1]
TitleOpenText ==
  "<div class=\"flex-1 min-w-0\"><h3 class=\"font-semibold text-gray-900 mb-1\">"
ScholarTitleOpenText ==
  "\" target=\"_blank\" rel=\"noopener\" class=\"hover:text-blue-600 transition-colors\">"
ScholarVenueOpenText == "</p><p class=\"text-sm text-gray-500\">"
ScholarCountOpenText ==
  "</p></div><div class=\"ml-4 text-right flex-shrink-0\"><span class=\"... bg-blue-100 text-blue-800\">"
\* the tokens at which a run of text content ends
TagTokens ==
  {"<", "</span>", "</a>", "<a href=\"",
   "</h3><p class=\"text-sm text-gray-600 mb-1\">",
   "</a></h3><p class=\"text-sm text-gray-600 mb-1\">",
   ScholarVenueOpenText, ScholarCountOpenText,
   " citations</span></div></div></div>"}

\* the text content that starts at t[i]
ReadText(t, i) == Unescape(SubSeq(t, i, RunNotIn(t, i, TagTokens)))

\* the cards of a section of the publications page, by position in the text
CardsAt(t, id) ==
  LET start == CHOOSE i \in 1..(Len(t) - 1) : t[i] = "<section id=\"" /\ t[i + 1] = id
      end == Least({j \in start..Len(t) : t[j] = "</div></section>"})
  IN {k \in start..end : t[k] = CardOpenText}
\* the year badge of the card at t[p]: its text follows the five tokens of
\* the opening tag
ReadCardYear(t, p) == ReadText(t, p + 6)
\* the title of the card at t[p]: the text of the h3, inside the link when
\* there is one
ReadCardTitle(t, p) ==
  LET h == Least({j \in p..Len(t) : t[j] = TitleOpenText})
  IN IF t[h + 1] = "<a href=\""
     THEN ReadText(t, Least({j \in h..Len(t) : t[j] = LinkClose.text[1]}) + 1)
     ELSE ReadText(t, h + 1)

\* the Scholar fragment: title, the year after the last ", " of the venue
\* line, the counter without its separators
ReadScholarTitle(t) ==
  ReadText(t, Least({j \in 1..Len(t) : t[j] = ScholarTitleOpenText}) + 1)
ReadScholarYear(t) ==
  LET v == Least({j \in 1..Len(t) : t[j] = ScholarVenueOpenText}) + 1
      line == SubSeq(t, v, RunNotIn(t, v, TagTokens))
      seps == {j \in 1..Len(line) : line[j] = ", "}
  IN IF seps = {} THEN <<>>
     ELSE Unescape(SubSeq(line, (CHOOSE j \in seps : \A k \in seps : k <= j) + 1,
                          Len(line)))
ReadScholarCitations(t) ==
  LET c == Least({j \in 1..Len(t) : t[j] = ScholarCountOpenText}) + 1
  IN DecVal(SelectSeq(ReadText(t, c), LAMBDA x : x # ","))

\* C21: rendering loses and reorders nothing: the publications page holds
\* one card per record of each category, the sections in the order articles,
\* conference papers, books, chapters and the cards in the order of the
\* list, and the title (when the record has one) and the year read back from
\* the i-th card are those of the i-th record; title, year and citation
\* counter read back from a Scholar fragment are those of the publication.
C21_RenderingReadsBack ==
  /\ PageDone("generate_publications_html") =>
       \A t \in {PageText(html)} :
         /\ \A c \in PageCategories :
              LET list == DictGet(call.data, c[2], <<>>)
              IN /\ Cardinality(CardsAt(t, c[3])) = Len(list)
                 /\ \A i \in 1..Len(list) :
                      /\ ReadCardYear(t, Kth(CardsAt(t, c[3]), i))
                           = DictGet(list[i], "year", <<>>)
                      /\ DictGet(list[i], "title", <<>>) # <<>> =>
                           ReadCardTitle(t, Kth(CardsAt(t, c[3]), i))
                             = list[i].title
         /\ \A a \in CardsAt(t, "articles"), b \in CardsAt(t, "conference"),
               c \in CardsAt(t, "books"), d \in CardsAt(t, "chapters") :
              a < b /\ b < c /\ c < d
  /\ PageDone("generate_publication_html") =>
       \A t \in {PageText(html)} :
         /\ "title" \in DOMAIN call.pub => ReadScholarTitle(t) = call.pub.title
         /\ ReadScholarYear(t) = DictGet(call.pub, "year", <<>>)
         /\ ReadScholarCitations(t) = DictGet(call.pub, "citations", 0)

\* ------------------------------------------------------------------------
\* fetch_scholar.py.  A dict of the scholarly library is a record; what
\* scholarly.fill(pub) gives for a publication is held in its field "fill":
\* the filled publication, or a record that says it raises.  None is Python's None.
\* ------------------------------------------------------------------------
SCHOLAR_ID == <<"gvb7W0IAAAAJ">>
TOP_N_PUBLICATIONS == 5
None == "None"

extract_metrics(a) ==
  [citations |-> DictGet(a, "citedby", 0),
   h_index |-> DictGet(a, "hindex", 0),
   i10_index |-> DictGet(a, "i10index", 0)]

\* key=lambda x: x.get('num_citations', 0)
NumCitations(x) == DictGet(x, "num_citations", 0)

\* sorted(publications, key=..., reverse=True): descending and stable
RECURSIVE InsertByCitations(_, _)
InsertByCitations(x, s) ==
  IF s = <<>> THEN <<x>>
  ELSE IF NumCitations(Head(s)) >= NumCitations(x)
       THEN <<Head(s)>> \o InsertByCitations(x, Tail(s))
       ELSE <<x>> \o s
RECURSIVE SortedPubs(_)
SortedPubs(publications) ==
  IF publications = <<>> THEN <<>>
  ELSE InsertByCitations(Last(publications), SortedPubs(Front(publications)))

\* try: filled_pub = scholarly.fill(pub) / except: filled_pub = pub
Fill(pub) == IF "raises" \in DOMAIN pub.fill THEN pub ELSE pub.fill

\* int(bib.get('pub_year', 0)) if bib.get('pub_year') else None
PubYear(bib) ==
  IF DictGet(bib, "pub_year", <<>>) # <<>> THEN IntOf(bib.pub_year) ELSE None
PubYearRaises(bib) ==
  DictGet(bib, "pub_year", <<>>) # <<>> /\ IntRaises(bib.pub_year)

\* pub_data of one filled publication
PubData(filled_pub) ==
  LET bib == DictGet(filled_pub, "bib", <<>>)
  IN [title |-> DictGet(bib, "title", <<"Unknown Title">>),
      authors |-> DictGet(bib, "author", <<"Unknown Authors">>),
      venue |-> DictGet(bib, "venue",
                        DictGet(bib, "journal",
                                DictGet(bib, "booktitle", <<"Unknown Venue">>))),
      year |-> PubYear(bib),
      citations |-> NumCitations(filled_pub),
      url |-> DictGet(filled_pub, "pub_url",
                      <<"https://scholar.google.com/citations?view_op=view_citation&hl=en&user=">>
                      \o SCHOLAR_ID)]

\* sorted_pubs[:top_n]
TopSlice(a, top_n) ==
  LET sorted_pubs == SortedPubs(DictGet(a, "publications", <<>>))
  IN SubSeq(sorted_pubs, 1, IF Len(sorted_pubs) < top_n THEN Len(sorted_pubs) ELSE top_n)

extract_top_publications(a, top_n) ==
  [i \in 1..Len(TopSlice(a, top_n)) |-> PubData(Fill(TopSlice(a, top_n)[i]))]

\* the ValueError of int() on a publication year that is not a number
ExtractTopRaises(a, top_n) ==
  \E i \in 1..Len(TopSlice(a, top_n)) :
    PubYearRaises(DictGet(Fill(TopSlice(a, top_n)[i]), "bib", <<>>))

\* ------------------------------------------------------------------------
\* What the Scholar service answers, and the metrics file before the run
\* ------------------------------------------------------------------------
BaseBib ==
  [title |-> <<"T">>, author |-> <<"A">>, venue |-> <<"V">>,
   pub_year |-> <<"2", "0">>]
Filled(n, bib) == [num_citations |-> n, bib |-> bib, pub_url |-> <<"u">>]
FetchedPub(n, fill) == [num_citations |-> n, bib |-> [title |-> <<"T">>], fill |-> fill]
\* publications: filled with the same count, with a count that rose or fell
\* since the list was fetched, not filled, with a year that is no number,
\* with no count and no bibliography
FetchedPubs ==
  {FetchedPub(9, Filled(9, BaseBib)),
   FetchedPub(3, Filled(3, [BaseBib EXCEPT !.title = <<"Z">>])),
   FetchedPub(3, Filled(20, BaseBib)),
   FetchedPub(9, Filled(1, [journal |-> <<"J">>, pub_year |-> <<"1", "9">>])),
   FetchedPub(5, [raises |-> TRUE]),
   FetchedPub(1, Filled(1, [BaseBib EXCEPT !.pub_year = <<"x">>])),
   [fill |-> [bib |-> [booktitle |-> <<"B">>]]]}
LongList ==
  <<FetchedPub(3, Filled(3, BaseBib)), FetchedPub(9, Filled(9, BaseBib)),
    FetchedPub(5, [raises |-> TRUE]), [fill |-> [bib |-> [booktitle |-> <<"B">>]]],
    FetchedPub(3, Filled(3, [BaseBib EXCEPT !.title = <<"Z">>])),
    FetchedPub(7, Filled(7, BaseBib))>>
FetchedLists ==
  UNION {[1..k -> FetchedPubs] : k \in 0..MaxPubs} \cup {LongList}

BaseAuthor ==
  [name |-> <<"N">>, affiliation |-> <<"U">>, citedby |-> 1234, hindex |-> 7,
   i10index |-> 3, publications |-> <<>>]
Authors ==
  {[BaseAuthor EXCEPT !.publications = p] : p \in FetchedLists}
  \cup {Without(BaseAuthor, k) : k \in DOMAIN BaseAuthor}
Services ==
  {[raises |-> TRUE, author |-> <<>>]}
  \cup {[raises |-> FALSE, author |-> a] : a \in Authors}

\* the metrics file: absent, not JSON, the empty JSON object, or the
\* metrics of an earlier run
ScholarFiles ==
  {NoFile, [kind |-> "corrupt", content |-> <<>>],
   [kind |-> "json", content |-> <<>>],
   [kind |-> "json", content |-> BaseMetrics]}
UtcNows == {<<"2026", "-", "11", "-", "06T00:00:00", "+00:00">>}

\* ------------------------------------------------------------------------
\* fetch_scholar.py: the import of scholarly, and main
\* ------------------------------------------------------------------------
InitFetch ==
  /\ ExtractorIdle
  /\ RendererIdle
  /\ UpdaterIdle
  /\ PagesIdle
  /\ scholarly \in BOOLEAN
  /\ service \in Services
  /\ scholarFile \in ScholarFiles
  /\ fpc = "import"
  /\ author = <<>>
  /\ fmetrics = <<>>
  /\ top_pubs = <<>>
  /\ fexc = "none"
  /\ fexit = Running

FetchExit(code) == fpc' = "exit" /\ fexit' = code

\* from scholarly import ...: sys.exit(1) on ImportError
ImportScholarly ==
  /\ fpc = "import"
  /\ IF scholarly THEN fpc' = "main" /\ UNCHANGED fexit ELSE FetchExit(1)
  /\ UNCHANGED <<scholarly, service, scholarFile, author, fmetrics, top_pubs, fexc>>
  /\ UNCHANGED <<extractorVars, rendererVars, updaterVars, pagesVars>>

\* author = fetch_author_data(SCHOLAR_ID): the exception of the service is
\* raised again and reaches the handler of main
FetchAuthorData ==
  /\ fpc = "main"
  /\ IF service.raises
     THEN fexc' = "Exception" /\ fpc' = "except" /\ UNCHANGED author
     ELSE author' = service.author /\ fpc' = "metrics" /\ UNCHANGED fexc
  /\ UNCHANGED <<scholarly, service, scholarFile, fmetrics, top_pubs, fexit>>
  /\ UNCHANGED <<extractorVars, rendererVars, updaterVars, pagesVars>>

\* metrics = extract_metrics(author)
ExtractMetrics ==
  /\ fpc = "metrics"
  /\ fmetrics' = extract_metrics(author)
  /\ fpc' = "top"
  /\ UNCHANGED <<scholarly, service, scholarFile, author, top_pubs, fexc, fexit>>
  /\ UNCHANGED <<extractorVars, rendererVars, updaterVars, pagesVars>>

\* the exception also stores the metrics found so far
ExtractTopPublicationsSaving ==
  /\ fpc = "top"
  /\ IF ExtractTopRaises(author, TOP_N_PUBLICATIONS)
     THEN /\ fexc' = "ValueError" /\ fpc' = "except"
          /\ scholarFile' = [kind |-> "json", content |-> [metrics |-> fmetrics]]
          /\ UNCHANGED top_pubs
     ELSE /\ top_pubs' = extract_top_publications(author, TOP_N_PUBLICATIONS)
          /\ fpc' = "save"
          /\ UNCHANGED <<fexc, scholarFile>>
  /\ UNCHANGED <<scholarly, service, author, fmetrics, fexit>>
  /\ UNCHANGED <<extractorVars, rendererVars, updaterVars, pagesVars>>

\* top_pubs = extract_top_publications(author, TOP_N_PUBLICATIONS)
ExtractTopPublications ==
  /\ fpc = "top"
  /\ IF ExtractTopRaises(author, TOP_N_PUBLICATIONS)
     THEN fexc' = "ValueError" /\ fpc' = "except" /\ UNCHANGED top_pubs
     ELSE /\ top_pubs' = extract_top_publications(author, TOP_N_PUBLICATIONS)
          /\ fpc' = "save"
          /\ UNCHANGED fexc
  /\ UNCHANGED <<scholarly, service, scholarFile, author, fmetrics, fexit>>
  /\ UNCHANGED <<extractorVars, rendererVars, updaterVars, pagesVars>>

\* output_data, save_metrics(output_data, OUTPUT_FILE), return 0
SaveMetrics ==
  /\ fpc = "save"
  /\ \E now \in UtcNows :
       scholarFile' =
         [kind |-> "json",
          content |->
            [last_updated |-> now,
             author |-> [name |-> DictGet(author, "name", <<"Alberto Ferreira De Souza">>),
                         affiliation |-> DictGet(author, "affiliation",
                                                 <<"Universidade Federal do Espirito Santo">>),
                         scholar_id |-> SCHOLAR_ID],
             metrics |-> fmetrics,
             top_publications |-> top_pubs]]
  /\ FetchExit(0)
  /\ UNCHANGED <<scholarly, service, author, fmetrics, top_pubs, fexc>>
  /\ UNCHANGED <<extractorVars, rendererVars, updaterVars, pagesVars>>

\* load_existing_metrics(output_path): the dict of the file, {} when the
\* file is absent or cannot be read as JSON
load_existing_metrics(file) ==
  IF file.kind = "json" THEN file.content ELSE <<>>

\* except Exception: return 0 when there is existing data, else return 1
FallBack ==
  /\ fpc = "except"
  /\ IF load_existing_metrics(scholarFile) # <<>> THEN FetchExit(0) ELSE FetchExit(1)
  /\ UNCHANGED <<scholarly, service, scholarFile, author, fmetrics, top_pubs, fexc>>
  /\ UNCHANGED <<extractorVars, rendererVars, updaterVars, pagesVars>>

NextFetch ==
  \/ ImportScholarly
  \/ FetchAuthorData
  \/ ExtractMetrics
  \/ ExtractTopPublications
  \/ SaveMetrics
  \/ FallBack

SpecFetch == InitFetch /\ [][NextFetch]_vars

\* ------------------------------------------------------------------------
\* Properties of fetch_scholar.py
\* ------------------------------------------------------------------------
FetchDone == fpc = "exit"
\* the run failed: the library is missing, or main caught an exception
FetchFailed == ~scholarly \/ fexc # "none"
\* the file holds what this run fetched
FreshOutput ==
  /\ scholarFile.kind = "json"
  /\ DOMAIN scholarFile.content
       = {"last_updated", "author", "metrics", "top_publications"}
  /\ scholarFile.content.metrics = extract_metrics(service.author)
  /\ scholarFile.content.top_publications = top_pubs

\* C22: a run of fetch_scholar.py ends with exit code 0 exactly when it
\* succeeded: every failure (the library missing, the fetch or the
\* extraction raising) ends with a non-zero exit code, and exit code 0 is
\* returned only when the run wrote its output from freshly fetched data.
C22_ExitZeroExactlyOnSuccess ==
  FetchDone =>
    /\ FetchFailed => fexit # 0
    /\ fexit = 0 => (~service.raises /\ FreshOutput)

\* C23: the metrics file is written by save_metrics only, after
\* fetch_author_data, extract_metrics and extract_top_publications have all
\* returned; a step in which main has caught or catches an exception leaves
\* the file as it is.
C23_FailureKeepsMetricsFile ==
  [][/\ scholarFile' # scholarFile =>
          /\ fpc = "save"
          /\ fexc = "none"
          /\ author = service.author
          /\ fmetrics = extract_metrics(author)
          /\ ~ExtractTopRaises(author, TOP_N_PUBLICATIONS)
          /\ top_pubs = extract_top_publications(author, TOP_N_PUBLICATIONS)
     /\ fexc' # "none" => scholarFile' = scholarFile]_vars

C23_Witness ==
  /\ FetchDone
  /\ fexc = "ValueError"
  /\ fmetrics = extract_metrics(service.author)
  /\ scholarFile = [kind |-> "json", content |-> BaseMetrics]

\* C25: extract_top_publications returns min(top_n, number of publications)
\* entries, in non-increasing order of the 'citations' value of the entries,
\* also when a publication's count after scholarly.fill differs from the
\* count the list was sorted by.
C25_TopPublicationsByCitations ==
  fpc = "save" =>
    /\ Len(top_pubs)
         = (IF Len(DictGet(author, "publications", <<>>)) < TOP_N_PUBLICATIONS
            THEN Len(DictGet(author, "publications", <<>>))
            ELSE TOP_N_PUBLICATIONS)
    /\ \A i \in 1..Len(top_pubs) : \A j \in i..Len(top_pubs) :
         top_pubs[i].citations >= top_pubs[j].citations

\* ------------------------------------------------------------------------
\* Properties of the cards
\* ------------------------------------------------------------------------
\* the first non-empty value of a list of candidates, or the placeholder
RECURSIVE FirstNonEmpty(_, _)
FirstNonEmpty(candidates, placeholder) ==
  IF candidates = <<>> THEN placeholder
  ELSE IF Head(candidates) # <<>> THEN Head(candidates)
  ELSE FirstNonEmpty(Tail(candidates), placeholder)

\* C24: the title generate_publication_card shows is the first non-empty
\* value of (title, title_en), and 'Unknown Title' when neither is
\* non-empty, also when both are the empty string.
C24_TitleFirstNonEmpty ==
  CardDone =>
    ReadCardTitle(PageText(html), 1)
      = FirstNonEmpty(<<DictGet(call.pub, "title", <<>>),
                        DictGet(call.pub, "title_en", <<>>)>>,
                      <<"Unknown Title">>)


\* the parts of a project card: the hidden description block, the toggle
\* button of the title and its icon, each with the index it carries
DescBlocks ==
  {html[i + 1].text : i \in {x \in 1..(Len(html) - 1) : html[x] = Lit("<div id=\"desc-")}}
ToggleButtons ==
  {html[i + 1].text :
     i \in {x \in 1..(Len(html) - 1) :
              html[x] = Lit("<h3 class=\"text-lg font-semibold text-gray-900 mb-2\"><button onclick=\"toggleDescription(")}}
ToggleIcons ==
  {html[i + 1].text :
     i \in {x \in 1..(Len(html) - 1) : html[x] = Lit("</span><svg id=\"icon-")}}

\* C26: in every card generate_project_card produces, the hidden description
\* block desc-<index> and the toggle button of the title
\* (toggleDescription(<index>), icon-<index>) are present together or absent
\* together, also when the description text comes from the translation
\* table.
C26_DescriptionHasToggle ==
  PageDone("generate_project_card") =>
    /\ DescBlocks = ToggleButtons
    /\ DescBlocks = ToggleIcons
    /\ DescBlocks \subseteq {DecStr(call.index)}


\* the cards of the projects page in page order, the part of the page that
\* belongs to the card at html[k], and the indices its element ids carry
AllProjectCards ==
  CardsIn("ongoing-section", ProjectCardOpen)
  \cup CardsIn("completed-section", ProjectCardOpen)
CardRank(k) == Cardinality({m \in AllProjectCards : m < k})
CardLast(k) ==
  IF \E m \in AllProjectCards : m > k
  THEN Least({m \in AllProjectCards : m > k}) - 1 ELSE Len(html)
IndexOpeners ==
  {Lit("<div id=\"desc-"), Lit("</span><svg id=\"icon-"),
   Lit("<h3 class=\"text-lg font-semibold text-gray-900 mb-2\"><button onclick=\"toggleDescription(")}
CardIndices(k) ==
  {html[i + 1].text : i \in {x \in k..(CardLast(k) - 1) : html[x] \in IndexOpeners}}

\* C27: on the page generate_projects_html produces the cards carry the
\* indices 0 .. (number of projects - 1) in page order, the ongoing projects
\* first and the completed ones after them, so that no two cards share a
\* desc-<index> or icon-<index> element id.
C27_CardIndicesDistinct ==
  PageDone("generate_projects_html") =>
    /\ Cardinality(AllProjectCards) = Len(PageProjectList)
    /\ \A a \in CardsIn("ongoing-section", ProjectCardOpen),
          b \in CardsIn("completed-section", ProjectCardOpen) : a < b
    /\ \A k \in AllProjectCards : CardIndices(k) \subseteq {DecStr(CardRank(k))}
    /\ \A k, m \in AllProjectCards :
         k # m => CardIndices(k) \cap CardIndices(m) = {}

C27_Witness ==
  /\ PageDone("generate_projects_html")
  /\ Len(PageProjectList) = 2
  /\ \E a \in CardsIn("ongoing-section", ProjectCardOpen),
        b \in CardsIn("completed-section", ProjectCardOpen) :
       /\ CardIndices(a) = {<<"0">>}
       /\ CardIndices(b) = {<<"1">>}
       /\ \E x \in a..CardLast(a) : html[x] = Lit("</span><svg id=\"icon-")


\* the venue line of a card: the text between the opening tag of its
\* paragraph and the closing tags of the card
CardVenueText ==
  LET t == PageText(html)
      v == Least({j \in 1..Len(t) : t[j] = ScholarVenueOpenText})
  IN SubSeq(t, v + 1, Len(t) - 1)

\* C28: for every publication type generate_publication_card renders an
\* empty venue text when all venue fields of the record are empty strings;
\* no type emits a label such as 'In: ' for an empty venue.
C28_EmptyVenueRendersEmpty ==
  (CardDone /\ \A f \in VenueFields(call.pub_type) : DictGet(call.pub, f, <<>>) = <<>>)
    => CardVenueText = <<>>

\* ------------------------------------------------------------------------
\* generate_lattes_pages.py: main.  The data file is any JSON document; a
\* null in a list of records is the record JsonNull.
\* ------------------------------------------------------------------------
JsonNull == [null |-> TRUE]
CategoryKeys ==
  {"articles", "conference_papers", "books", "book_chapters", "projects"}

\* p.get(...) on an entry that is no dict: AttributeError
EntryRaises(list) == \E i \in 1..Len(list) : list[i] = JsonNull
PublicationsRaise(d) ==
  \E k \in CategoryKeys \ {"projects"} : EntryRaises(DictGet(d, k, <<>>))
ProjectsRaise(d) == EntryRaises(DictGet(d, "projects", <<>>))

MainData ==
  [PublicationData([t \in PubTypes |-> 1]) EXCEPT !.projects = <<BaseProject>>]
MainDatas ==
  {[MainData EXCEPT !.projects = p] :
     p \in UNION {[1..k -> PageProjects \cup {JsonNull}] : k \in 0..MaxElems}}
  \cup {[MainData EXCEPT ![k] = <<JsonNull>>] : k \in CategoryKeys}
  \cup {Without(MainData, k) : k \in CategoryKeys}
DataFiles ==
  {NoFile, [kind |-> "corrupt", content |-> <<>>]}
  \cup {[kind |-> "json", content |-> d] : d \in MainDatas}
PageFiles == {NoFile, [kind |-> "old", content |-> <<>>]}

InitPages ==
  /\ ExtractorIdle
  /\ RendererIdle
  /\ UpdaterIdle
  /\ FetcherIdle
  /\ dataFile \in DataFiles
  /\ publicationsFile \in PageFiles
  /\ projectsFile \in PageFiles
  /\ lpc = "main"
  /\ ldata = <<>>
  /\ publications_html = <<>>
  /\ projects_html = <<>>
  /\ lexc = "none"
  /\ lexit = Running

PagesExit(code, e) == lpc' = "exit" /\ lexit' = code /\ lexc' = e

\* data = load_data(): sys.exit(1) when the data file is missing; json.load
\* raises on a file that is not JSON
LoadData ==
  /\ lpc = "main"
  /\ CASE dataFile.kind = "absent" -> PagesExit(1, "SystemExit") /\ UNCHANGED ldata
       [] dataFile.kind = "corrupt" -> PagesExit(1, "JSONDecodeError") /\ UNCHANGED ldata
       [] OTHER -> ldata' = dataFile.content /\ lpc' = "publications"
                   /\ UNCHANGED <<lexit, lexc>>
  /\ UNCHANGED <<dataFile, publicationsFile, projectsFile, publications_html,
                 projects_html>>
  /\ UNCHANGED <<extractorVars, rendererVars, updaterVars, fetcherVars>>

\* publications_html = generate_publications_html(data)
GeneratePublications ==
  /\ lpc = "publications"
  /\ IF PublicationsRaise(ldata)
     THEN PagesExit(1, "AttributeError") /\ UNCHANGED publications_html
     ELSE /\ \E now \in Nows :
               publications_html' = generate_publications_html(ldata, now)
          /\ lpc' = "write_publications"
          /\ UNCHANGED <<lexit, lexc>>
  /\ UNCHANGED <<dataFile, publicationsFile, projectsFile, ldata, projects_html>>
  /\ UNCHANGED <<extractorVars, rendererVars, updaterVars, fetcherVars>>

\* with open(PUBLICATIONS_FILE, 'w') as f: f.write(publications_html)
WritePublications ==
  /\ lpc = "write_publications"
  /\ publicationsFile' = [kind |-> "html", content |-> publications_html]
  /\ lpc' = "projects"
  /\ UNCHANGED <<dataFile, projectsFile, ldata, publications_html,
                 projects_html, lexc, lexit>>
  /\ UNCHANGED <<extractorVars, rendererVars, updaterVars, fetcherVars>>

\* projects_html = generate_projects_html(data)
GenerateProjects ==
  /\ lpc = "projects"
  /\ IF ProjectsRaise(ldata)
     THEN PagesExit(1, "AttributeError") /\ UNCHANGED projects_html
     ELSE /\ \E now \in Nows : projects_html' = generate_projects_html(ldata, now)
          /\ lpc' = "write_projects"
          /\ UNCHANGED <<lexit, lexc>>
  /\ UNCHANGED <<dataFile, publicationsFile, projectsFile, ldata, publications_html>>
  /\ UNCHANGED <<extractorVars, rendererVars, updaterVars, fetcherVars>>

\* with open(PROJECTS_FILE, 'w') as f: f.write(projects_html); return 0
WriteProjects ==
  /\ lpc = "write_projects"
  /\ projectsFile' = [kind |-> "html", content |-> projects_html]
  /\ PagesExit(0, "none")
  /\ UNCHANGED <<dataFile, publicationsFile, ldata, publications_html, projects_html>>
  /\ UNCHANGED <<extractorVars, rendererVars, updaterVars, fetcherVars>>

NextPages ==
  \/ LoadData
  \/ GeneratePublications
  \/ WritePublications
  \/ GenerateProjects
  \/ WriteProjects

SpecPages == InitPages /\ [][NextPages]_vars

\* C29: generate_lattes_pages.main writes both publications.html and
\* projects.html or neither: a page file has been written only when both
\* pages have been generated, and a run that has ended has written both
\* files or none.
C29_BothPagesOrNeither ==
  /\ (publicationsFile.kind = "html" \/ projectsFile.kind = "html") =>
       (publications_html # <<>> /\ projects_html # <<>>)
  /\ lpc = "exit" => (publicationsFile.kind = "html" <=> projectsFile.kind = "html")


\* ------------------------------------------------------------------------
\* The publications list that update_html writes
\* ------------------------------------------------------------------------
TopPublications == DictGet(metrics, "top_publications", <<>>)
\* the anchors are in the document read, there are publications, and their
\* urls hold no markup
ListCase ==
  /\ ListOccurs(html_content)
  /\ TopPublications # <<>>
  /\ \A i \in 1..Len(TopPublications) : DictGet(TopPublications[i], "url", <<"#">>) = <<"u">>
\* all that stands between the opening tag of the list and its closing </div>
ListRegionOf(s) ==
  SubSeq(s, ListGt(s, ListStart(s)) + 1, ListClose(s, ListStart(s)) - 1)

\* C30: when update_html finds the publications-list anchors, the text it
\* places between them is the fragments of generate_publication_html joined
\* as the code joins them, character for character, also for a title that
\* holds a backslash, or a backslash followed by a digit or letter; such a
\* title raises no error.
C30_FragmentsPlacedVerbatim ==
  ListCase =>
    /\ gexc # "re.error"
    /\ Updated =>
         /\ ListOccurs(updated_html)
         /\ ListRegionOf(updated_html)
              = <<"\n">> \o PubsHtml(TopPublications) \o <<"\n", "      ">>
====
